---- MODULE Spec2Model ----
(***************************************************************************)
(* A model of the scoring, portfolio-selection and risk-monitoring engine  *)
(* of the ETF strategy pipeline (position.py, etf_scoring.py, config.py).  *)
(*                                                                         *)
(* Numbers.  The program computes in floating point; the model computes in *)
(* exact scaled integers.  Correlations are in tenths (7 is 0.7), scores   *)
(* in hundredths of a point (10000 is 100.00), volatilities of the risk    *)
(* parity weighting in units of 0.05, risk metrics in millionths.  The     *)
(* weighted sum of the composite risk level is compared with thresholds it *)
(* can equal, so its rounding in double precision is modelled too.         *)
(* Every function of the program is an operator; a call of it is an action *)
(* that draws the arguments from bounded sets, stores them in the call's   *)
(* argument variable and stores what the function returns in the call's    *)
(* result variable.                                                        *)
(***************************************************************************)
EXTENDS Integers, Sequences, FiniteSets, TLC

VARIABLES
    selArgs,   \* arguments of the current select_low_correlation_etfs call
    selRet,    \* what that call returned (NoCall before it returns)
    parArgs,   \* arguments of the current calculate_risk_parity_weights call
    parRet,    \* what that call returned
    BASE_SCORE_WEIGHTS,  \* Config.BASE_SCORE_WEIGHTS, in twentieths
    score_weights,       \* what the last adjust_score_weights call returned
    scoreArgs, \* arguments of the current call into the scoring module
    scoreRet,  \* what that call returned
    riskArgs,  \* arguments and environment of the current monitor_portfolio_risk call
    riskRet,   \* what that call returned
    levelArgs, \* arguments of the current calculate_overall_risk_level call
    levelRet,  \* what that call returned
    callArgs,  \* arguments of the current call of a sizing or regime function
    callRet,   \* what that call returned
    ETF_SELECTION_LAYERS,  \* Config.ETF_SELECTION_LAYERS
    STRATEGY_PARAMETERS    \* Config.STRATEGY_PARAMETERS

selVars == <<selArgs, selRet>>

parVars == <<parArgs, parRet>>

scoreVars == <<BASE_SCORE_WEIGHTS, score_weights, scoreArgs, scoreRet>>

riskVars == <<riskArgs, riskRet>>

levelVars == <<levelArgs, levelRet>>

callVars == <<callArgs, callRet>>

\* the configuration tables other than the base score weights
configVars == <<ETF_SELECTION_LAYERS, STRATEGY_PARAMETERS>>

\* the variables of the components modelled after the risk level
laterVars == <<callVars, configVars>>

vars == <<selVars, parVars, scoreVars, riskVars, levelVars, laterVars>>

NoCall == [called |-> FALSE]

\* ---------------------------------------------------------------- helpers

Range(s) == {s[i] : i \in 1..Len(s)}

Max2(a, b) == IF a >= b THEN a ELSE b

Min2(a, b) == IF a <= b THEN a ELSE b

\* ------------------------------------------------- bounds of the model

\* the longest candidate list handed to the selector
MaxCandidates == 3

\* the largest max_holdings handed to the selector
MaxHoldingsArg == 3

\* the highest composite score of a candidate (scores are 1..MaxScore)
MaxScore == 2

\* the longest selection handed to the risk parity weighting
MaxSelected == 3

\* the longest price series handed to the scoring
MaxRows == 31

\* the most bucket rows of a position record handed to the risk monitor
MaxBuckets == 2

\* the most instruments of the universe the buckets hold (codes 1..MaxHeld)
MaxHeld == 2

\* the highest volatility handed to the position sizing, in hundredths
MaxVolatility == 30

\* ======================================================== configuration
\* config.py: Config

\* the keys of a weight set
WeightKeys == {"liquidity", "risk", "return", "tracking", "premium", "stability"}

\* the unit of the weights: 1.0 is 20 twentieths
WeightUnit == 20

\* Config.BASE_SCORE_WEIGHTS as the class body sets it, in twentieths:
\* 0.15, 0.25, 0.20, 0.20, 0.10, 0.10
BaseScoreWeights ==
    [liquidity |-> 3, risk |-> 5, return |-> 4, tracking |-> 4,
     premium |-> 2, stability |-> 2]

\* the variables of a component in which no call is under way
\* config.py: Config.STRATEGY_PARAMETERS.  The keys are the bucket names
\* "稳健仓" (stable), "激进仓" (aggressive) and "套利仓" (arbitrage); ratios
\* are in ten-thousandths, correlations in tenths, sizes in tenths of
\* 100 million, volumes in units of 10 thousand.
StrategyParameters ==
    [stable |->
        [min_fund_size |-> 100, min_avg_volume |-> 5000, max_holdings |-> 4,
         min_correlation |-> 7, ma_period |-> 20, confirm_days |-> 3,
         stop_loss_ratio |-> 500],
     aggressive |->
        [min_fund_size |-> 20, min_avg_volume |-> 1000, max_holdings |-> 3,
         min_correlation |-> 8, ma_period |-> 20, confirm_days |-> 2,
         stop_loss_ratio |-> 800],
     arbitrage |->
        [min_fund_size |-> 50, min_avg_volume |-> 3000, max_holdings |-> 5,
         min_correlation |-> 6, ma_period |-> 10, confirm_days |-> 1,
         stop_loss_ratio |-> 200]]

\* Config.ETF_SELECTION_LAYERS: fund sizes in tenths of 100 million,
\* volumes in units of 10 thousand, tracking errors and growth rates in
\* hundredths, listing ages in days; the sectors in focus are "科技",
\* "医药" and "新能源"
EtfSelectionLayers ==
    [base |->
        [min_fund_size |-> 100, min_avg_volume |-> 5000,
         min_listing_days |-> 365, max_tracking_error |-> 5],
     opportunity |->
        [min_fund_size |-> 20, min_avg_volume |-> 1000,
         min_listing_days |-> 180, max_tracking_error |-> 8],
     growth |->
        [min_fund_size |-> 5, min_avg_volume |-> 300,
         max_listing_days |-> 180, min_size_growth |-> 30],
     sector_special |->
        [min_fund_size |-> 30, min_avg_volume |-> 800,
         sector_focus |-> <<"technology", "medicine", "new_energy">>]]

IdleConfig ==
    /\ ETF_SELECTION_LAYERS = EtfSelectionLayers
    /\ STRATEGY_PARAMETERS = StrategyParameters

IdleSelect == selArgs = NoCall /\ selRet = NoCall

IdleParity == parArgs = NoCall /\ parRet = NoCall

IdleScore ==
    /\ BASE_SCORE_WEIGHTS = BaseScoreWeights
    /\ score_weights = NoCall
    /\ scoreArgs = NoCall
    /\ scoreRet = NoCall

IdleRisk == riskArgs = NoCall /\ riskRet = NoCall

IdleLevel == levelArgs = NoCall /\ levelRet = NoCall

IdleCall == callArgs = NoCall /\ callRet = NoCall

IdleLater == IdleCall /\ IdleConfig

\* ============================================================ selection
\* position.py: select_low_correlation_etfs

\* the codes of a candidate list of n instruments
Codes(n) == 1..n

\* correlations in tenths: below, at and above the thresholds
CorrValues == {5, 7, 9}

\* the thresholds of the three configured buckets, in tenths
MinCorrelationValues == {6, 7, 8}

\* A correlation matrix: the codes it is indexed by, and a symmetric table.
\* .loc[a, b] raises KeyError when a or b is not in the index.
SymmetricTables(n) ==
    {t \in [Codes(n) \X Codes(n) -> CorrValues \cup {10}] :
        \A a, b \in Codes(n) :
            /\ t[<<a, b>>] = t[<<b, a>>]
            /\ (a = b) <=> (t[<<a, b>>] = 10)}

\* etfs.sort_values("score", ascending=False): every order of the rows in
\* which the scores do not increase (the order of equal scores is left to
\* the sorting algorithm).
SortedByScore(etfs) ==
    {s \in [1..Len(etfs) -> Range(etfs)] :
        /\ \A i, j \in 1..Len(etfs) : i # j => s[i] # s[j]
        /\ \A i \in 1..(Len(etfs) - 1) : s[i].score >= s[i + 1].score}

\* The inner loop over the members selected so far: "raise" when .loc has no
\* entry, "high" at the first member whose correlation exceeds the
\* threshold (break), "low" when the loop runs to its end.
RECURSIVE CheckCorrelation(_, _, _, _, _)
CheckCorrelation(etf, selected, j, matrix, min_correlation) ==
    IF j > Len(selected) THEN "low"
    ELSE IF etf.etf_code \notin matrix.index
            \/ selected[j].etf_code \notin matrix.index THEN "raise"
    ELSE IF matrix.table[<<etf.etf_code, selected[j].etf_code>>] > min_correlation
        THEN "high"
    ELSE CheckCorrelation(etf, selected, j + 1, matrix, min_correlation)

\* The loop "for _, etf in etfs.iterrows()" from row i on.
RECURSIVE SelectLoop(_, _, _, _, _, _)
SelectLoop(sorted, i, selected, matrix, max_holdings, min_correlation) ==
    IF i > Len(sorted) THEN [raised |-> FALSE, rows |-> selected]
    ELSE IF selected = <<>>
        THEN SelectLoop(sorted, i + 1, <<sorted[i]>>, matrix,
                        max_holdings, min_correlation)
    ELSE LET c == CheckCorrelation(sorted[i], selected, 1, matrix,
                                   min_correlation)
         IN  IF c = "raise" THEN [raised |-> TRUE, rows |-> selected]
             ELSE IF c = "high"
                 THEN SelectLoop(sorted, i + 1, selected, matrix,
                                 max_holdings, min_correlation)
             ELSE IF Len(selected) + 1 >= max_holdings
                 THEN [raised |-> FALSE, rows |-> Append(selected, sorted[i])]
             ELSE SelectLoop(sorted, i + 1, Append(selected, sorted[i]),
                             matrix, max_holdings, min_correlation)

\* select_low_correlation_etfs, given the order the sort produced: the rows
\* the loop selected, or on an exception the head of the sorted list.
select_low_correlation_etfs(sorted, matrix, max_holdings, min_correlation) ==
    LET r == SelectLoop(sorted, 1, <<>>, matrix, max_holdings, min_correlation)
    IN  IF r.raised THEN SubSeq(sorted, 1, Min2(1, Len(sorted)))
        ELSE r.rows

\* the candidate lists: codes 1..n in the caller's order, each with a score
CandidateLists ==
    UNION {{[i \in 1..n |-> [etf_code |-> i, score |-> sc[i]]] :
                sc \in [1..n -> 1..MaxScore]} : n \in 0..MaxCandidates}

CorrelationMatrices(n) ==
    {[index |-> ix, table |-> t] : ix \in SUBSET Codes(n), t \in SymmetricTables(n)}

\* ------------------------------------------------ claims on the selection

Correlation(matrix, a, b) == matrix.table[<<a.etf_code, b.etf_code>>]

\* C1: for every candidate list, correlation matrix, max_holdings >= 1 and
\* threshold, the selector returns at most max_holdings instruments and no
\* two returned instruments have a correlation above min_correlation.
C1_AtMostMaxHoldingsLowCorrelation ==
    selRet.called =>
        /\ Len(selRet.rows) <= selArgs.max_holdings
        /\ \A i, j \in 1..Len(selRet.rows) :
                i # j => Correlation(selArgs.correlation_matrix, selRet.rows[i],
                                     selRet.rows[j]) <= selArgs.min_correlation

\* The greedy selection as specified: visit the candidates in the sorted
\* order, admit a candidate iff fewer than max_holdings are selected and its
\* correlation with every selected member is at most the threshold.
RECURSIVE GreedySelection(_, _, _, _, _, _)
GreedySelection(sorted, i, selected, matrix, max_holdings, min_correlation) ==
    IF i > Len(sorted) \/ Len(selected) >= max_holdings THEN selected
    ELSE IF \A j \in 1..Len(selected) :
                Correlation(matrix, sorted[i], selected[j]) <= min_correlation
        THEN GreedySelection(sorted, i + 1, Append(selected, sorted[i]), matrix,
                             max_holdings, min_correlation)
    ELSE GreedySelection(sorted, i + 1, selected, matrix, max_holdings,
                         min_correlation)

MatrixComplete == selArgs.correlation_matrix.index = Codes(Len(selArgs.etfs))

\* C2: on a matrix that has every candidate, the selector returns exactly
\* the greedy selection over the candidates in descending score order (the
\* top-scored one first, each later one iff its correlation with every
\* admitted member is at most the threshold, until max_holdings is reached).
C2_ReturnsGreedySelection ==
    (selRet.called /\ MatrixComplete) =>
        selRet.rows = GreedySelection(selRet.sorted, 1, <<>>,
                                      selArgs.correlation_matrix,
                                      selArgs.max_holdings,
                                      selArgs.min_correlation)

\* The part of C2 that the code does keep: of two candidates with
\* correlation 0.9 under threshold 0.7 only the higher-scored is returned.
ScenarioB_OnlyHigherScored ==
    (/\ selRet.called
     /\ MatrixComplete
     /\ Len(selArgs.etfs) = 2
     /\ selArgs.correlation_matrix.table[<<1, 2>>] = 9
     /\ selArgs.min_correlation = 7)
        => /\ Len(selRet.rows) = 1
           /\ \A e \in Range(selArgs.etfs) : e.score <= selRet.rows[1].score

InitSelect ==
    /\ IdleParity
    /\ IdleScore
    /\ IdleRisk
    /\ IdleLevel
    /\ IdleLater
    /\ \E etfs \in CandidateLists :
       \E matrix \in CorrelationMatrices(Len(etfs)) :
       \E max_holdings \in 1..MaxHoldingsArg :
       \E min_correlation \in MinCorrelationValues :
            selArgs = [etfs |-> etfs, correlation_matrix |-> matrix,
                       max_holdings |-> max_holdings,
                       min_correlation |-> min_correlation]
    /\ selRet = NoCall

\* one call of select_low_correlation_etfs on the drawn arguments
SelectLowCorrelationEtfs ==
    /\ ~selRet.called
    /\ \E sorted \in SortedByScore(selArgs.etfs) :
            selRet' = [called |-> TRUE, sorted |-> sorted,
                       rows |-> select_low_correlation_etfs(
                                    sorted, selArgs.correlation_matrix,
                                    selArgs.max_holdings,
                                    selArgs.min_correlation)]
    /\ UNCHANGED <<selArgs, parVars, scoreVars, riskVars, levelVars, laterVars>>

NextSelect == SelectLowCorrelationEtfs

SpecSelect == InitSelect /\ [][NextSelect]_vars

\* ========================================================== risk parity
\* position.py: calculate_risk_parity_weights

\* A float: a finite rational num/den (den > 0), or inf, or nan.
Fin(n, d) == [k |-> "fin", num |-> n, den |-> d]

Inf == [k |-> "inf"]

NaN == [k |-> "nan"]

\* the annualised volatilities of a price series with returns, in units of
\* 0.05: 0 for a flat series
VolValues == {0, 1, 2, 4}

\* the volatility appended for an instrument without price data: 0.1
DefaultVolatility == 2

\* What load_etf_daily_data returns, as far as the weighting reads it: an
\* empty frame, or a frame with or without a close column and with the
\* annualised standard deviation of its daily returns (nan for a frame of
\* one row, which has no return).
DailyFrames ==
    {[empty |-> TRUE]}
    \cup {[empty |-> FALSE, has_close |-> FALSE]}
    \cup {[empty |-> FALSE, has_close |-> TRUE, std |-> v] :
            v \in {Fin(x, 1) : x \in VolValues} \cup {NaN}}

\* etf_scoring.py: calculate_volatility, 0.0 without a close column
calculate_volatility(df) ==
    IF ~df.has_close THEN Fin(0, 1) ELSE df.std

\* The names position.py imports from etf_scoring.  It calls
\* calculate_volatility and calculate_max_drawdown too, which it neither
\* imports nor defines: such a call raises NameError.
EtfScoringImports ==
    {"get_top_rated_etfs", "get_etf_name", "get_etf_basic_info",
     "calculate_tracking_error", "calculate_liquidity_score"}

ResolvesInPosition(name) == name \in EtfScoringImports

\* what the loop over the rows appends for an instrument whose call of
\* calculate_volatility returns
DataVolatilities(etfs) ==
    [i \in 1..Len(etfs) |->
        IF etfs[i].df.empty THEN Fin(DefaultVolatility, 1)
        ELSE calculate_volatility(etfs[i].df)]

\* The loop over the rows: it raises at the first instrument with price
\* data when calculate_volatility does not resolve, and builds the list
\* "volatilities" otherwise.
Volatilities(etfs) ==
    [raised |-> /\ ~ResolvesInPosition("calculate_volatility")
                /\ \E i \in 1..Len(etfs) : ~etfs[i].df.empty,
     values |-> DataVolatilities(etfs)]

\* 1.0 / x in IEEE arithmetic (numpy): no exception on a division by zero
Reciprocal(x) ==
    IF x.k = "nan" THEN NaN
    ELSE IF x.k = "inf" THEN Fin(0, 1)
    ELSE IF x.num = 0 THEN Inf
    ELSE Fin(x.den, x.num)

\* x + y in IEEE arithmetic, for x and y that are not negative
FloatAdd(x, y) ==
    IF x.k = "nan" \/ y.k = "nan" THEN NaN
    ELSE IF x.k = "inf" \/ y.k = "inf" THEN Inf
    ELSE Fin(x.num * y.den + y.num * x.den, x.den * y.den)

\* x / y in IEEE arithmetic, for x and y that are not negative
FloatDiv(x, y) ==
    IF x.k = "nan" \/ y.k = "nan" THEN NaN
    ELSE IF x.k = "inf" THEN (IF y.k = "inf" THEN NaN ELSE Inf)
    ELSE IF y.k = "inf" THEN Fin(0, 1)
    ELSE IF y.num = 0 THEN (IF x.num = 0 THEN NaN ELSE Inf)
    ELSE Fin(x.num * y.den, x.den * y.num)

\* np.sum over a list of floats
RECURSIVE FloatSum(_)
FloatSum(xs) ==
    IF xs = <<>> THEN Fin(0, 1)
    ELSE FloatAdd(xs[1], FloatSum(Tail(xs)))

\* weights = 1.0 / np.array(volatilities); weights / np.sum(weights)
InverseVolatilityWeights(volatilities) ==
    LET inv == [i \in 1..Len(volatilities) |-> Reciprocal(volatilities[i])]
        total == FloatSum(inv)
    IN  [i \in 1..Len(volatilities) |-> FloatDiv(inv[i], total)]

\* a slip: the handler returns 1.0 for every instrument
UnitWeights(n) == [i \in 1..n |-> Fin(1, 1)]

\* the handler's [1.0/len(etfs)] * len(etfs)
EqualWeights(n) == [i \in 1..n |-> Fin(1, n)]

\* calculate_risk_parity_weights.  The rows are read by etf["etf_code"],
\* which raises when the frame has no such column; the loop raises too when
\* calculate_volatility does not resolve; the handler then returns equal
\* weights.
calculate_risk_parity_weights(etfs, has_etf_code) ==
    IF Len(etfs) > 0 /\ ~has_etf_code THEN EqualWeights(Len(etfs))
    ELSE IF Volatilities(etfs).raised THEN EqualWeights(Len(etfs))
    ELSE InverseVolatilityWeights(Volatilities(etfs).values)

\* ---------------------------------------------- claims on the risk parity

RatLess(x, y) == x.num * y.den < y.num * x.den

IsOne(x) == x.k = "fin" /\ x.num = x.den

\* every instrument's volatility (that of its price data, the default
\* without data) is a finite number above zero
AllVolatilitiesPositive ==
    \A i \in 1..Len(parArgs.etfs) :
        LET v == DataVolatilities(parArgs.etfs)[i]
        IN  v.k = "fin" /\ v.num > 0

\* C6: for a non-empty selection whose volatilities are all strictly
\* positive the weighting returns one weight per instrument, each strictly
\* positive, summing to 1, and an instrument of lower volatility never has a
\* smaller weight than one of higher volatility.
C6_RiskParityWeights ==
    (parRet.called /\ Len(parArgs.etfs) >= 1 /\ AllVolatilitiesPositive) =>
        LET w == parRet.weights
            v == DataVolatilities(parArgs.etfs)
        IN  /\ Len(w) = Len(parArgs.etfs)
            /\ \A i \in 1..Len(w) : w[i].k = "fin" /\ w[i].num > 0
            /\ IsOne(FloatSum(w))
            /\ \A i, j \in 1..Len(w) : RatLess(v[i], v[j]) => ~RatLess(w[i], w[j])

\* the weighting has run on two instruments with price data of different
\* positive volatility
C6_Witness ==
    /\ parRet.called
    /\ parArgs.has_etf_code
    /\ AllVolatilitiesPositive
    /\ \E i, j \in 1..Len(parArgs.etfs) :
            /\ ~parArgs.etfs[i].df.empty
            /\ ~parArgs.etfs[j].df.empty
            /\ RatLess(DataVolatilities(parArgs.etfs)[i],
                       DataVolatilities(parArgs.etfs)[j])
            /\ ~RatLess(parRet.weights[i], parRet.weights[j])

\* the volatilities with the fallback in the place of a zero or unavailable
\* one
FallbackVolatilities(etfs) ==
    [i \in 1..Len(etfs) |->
        LET v == DataVolatilities(etfs)[i]
        IN  IF v.k # "fin" \/ v.num = 0 THEN Fin(DefaultVolatility, 1) ELSE v]

SameWeights(w1, w2) ==
    /\ Len(w1) = Len(w2)
    /\ \A i \in 1..Len(w1) :
            /\ w1[i].k = "fin"
            /\ w2[i].k = "fin"
            /\ w1[i].num * w2[i].den = w2[i].num * w1[i].den

\* C7: an instrument of zero or unavailable volatility is given the
\* fallback volatility before the inversion: the weights are those of the
\* inverse volatilities with the fallback in its place, and each is a finite
\* number in [0, 1].
C7_FallbackBeforeInversion ==
    (parRet.called /\ parArgs.has_etf_code) =>
        /\ SameWeights(parRet.weights,
                       InverseVolatilityWeights(FallbackVolatilities(parArgs.etfs)))
        /\ \A i \in 1..Len(parRet.weights) :
                LET w == parRet.weights[i]
                IN  w.k = "fin" /\ 0 <= w.num /\ w.num <= w.den

\* the weights of every call are finite numbers in [0, 1]
WeightsFiniteInUnitInterval ==
    parRet.called =>
        \A i \in 1..Len(parRet.weights) :
            LET w == parRet.weights[i]
            IN  w.k = "fin" /\ 0 <= w.num /\ w.num <= w.den

Selections ==
    UNION {[1..n -> {[df |-> d] : d \in DailyFrames}] : n \in 0..MaxSelected}

InitParity ==
    /\ IdleSelect
    /\ IdleScore
    /\ IdleRisk
    /\ IdleLevel
    /\ IdleLater
    /\ \E etfs \in Selections, has_etf_code \in BOOLEAN :
            parArgs = [etfs |-> etfs, has_etf_code |-> has_etf_code]
    /\ parRet = NoCall

\* one call of calculate_risk_parity_weights on the drawn arguments
CalculateRiskParityWeights ==
    /\ ~parRet.called
    /\ parRet' = [called |-> TRUE,
                  weights |-> calculate_risk_parity_weights(
                                  parArgs.etfs, parArgs.has_etf_code)]
    /\ UNCHANGED <<selVars, parArgs, scoreVars, riskVars, levelVars, laterVars>>

NextParity == CalculateRiskParityWeights

SpecParity == InitParity /\ [][NextParity]_vars

\* ============================================================== scoring
\* etf_scoring.py

\* the regimes determine_market_condition returns
Regimes == {"bull", "bear", "sideways"}

\* a slip: the adjusted weights divided by the total of the base weights
adjust_score_weights_base_total(base, market_condition) ==
    LET weights ==
            IF market_condition = "bear"
                THEN [base EXCEPT !.risk = @ + 2, !.return = @ - 1,
                                  !.premium = @ + 1]
            ELSE IF market_condition = "bull"
                THEN [base EXCEPT !.return = @ + 1, !.risk = @ - 1,
                                  !.tracking = @ - 1]
            ELSE base
    IN  [num |-> weights, den |-> WeightUnit]

\* adjust_score_weights: a copy of the base weights, the additive tweaks of
\* the regime (0.1 is 2 twentieths, 0.05 is 1), and every weight divided by
\* the new total.  A weight set is its numerators over the one denominator.
adjust_score_weights(base, market_condition) ==
    LET weights ==
            IF market_condition = "bear"
                THEN [base EXCEPT !.risk = @ + 2, !.return = @ - 1,
                                  !.premium = @ + 1]
            ELSE IF market_condition = "bull"
                THEN [base EXCEPT !.return = @ + 1, !.risk = @ - 1,
                                  !.tracking = @ - 1]
            ELSE base
        total == weights.liquidity + weights.risk + weights.return
                    + weights.tracking + weights.premium + weights.stability
    IN  [num |-> weights, den |-> total]

\* round(x / d, 2) on hundredths, for x >= 0
RoundDiv(x, d) == (2 * x + d) \div (2 * d)

\* min(max(x, lo), hi)
Clamp(x, lo, hi) == Min2(Max2(x, lo), hi)

\* a column of a price frame: absent, or present with the statistic of it
\* that the scoring reads
NoCol == [has |-> FALSE]

Col(v) == [has |-> TRUE, v |-> v]

\* the least number of rows calculate_etf_score scores
MinObservations == 30

\* the least number of rows calculate_sentiment_score reads a change from
MinSentimentRows == 5

\* 100.00 points, in hundredths
FullScore == 10000

\* np.log(depth + 1) * 20 in hundredths, for the depths of the model
Log20(depth) ==
    CASE depth = 10 -> 4796
      [] depth = 105 -> 9327
      [] depth = 200 -> 10607

\* calculate_liquidity_score.  amount.v is the mean amount in units of
\* 10000, spread.v the mean spread in units of 0.0001, turnover.v the mean
\* turnover in units of 0.001.
calculate_liquidity_score(df) ==
    LET volume_score ==
            IF df.amount.has THEN Clamp(df.amount.v + 5000, 0, FullScore)
            ELSE 5000
        spread_score ==
            IF df.spread.has THEN Max2(0, FullScore - df.spread.v * 100)
            ELSE 6000
        bid_volume == IF df.bid_volume.has THEN df.bid_volume.v ELSE 0
        ask_volume == IF df.ask_volume.has THEN df.ask_volume.v ELSE 0
        depth_score ==
            IF bid_volume > 0 /\ ask_volume > 0
                THEN Clamp(Log20((bid_volume + ask_volume) \div 2), 0, FullScore)
            ELSE 5000
        turnover_score ==
            IF df.turnover.has THEN Clamp(df.turnover.v * 100, 0, FullScore)
            ELSE 5000
    IN  RoundDiv(volume_score * 4 + spread_score * 3 + depth_score * 2
                    + turnover_score, 10)

\* calculate_sharpe_ratio, in hundredths: 0.0 without a close column
calculate_sharpe_ratio(df) == IF ~df.has_close THEN 0 ELSE df.sharpe

\* calculate_max_drawdown, in hundredths: 0.0 without a close column
calculate_max_drawdown(df) == IF ~df.has_close THEN 0 ELSE df.max_drawdown

\* calculate_risk_score.  The volatility is in units of 0.05, so that
\* volatility * 100 points is 500 hundredths a unit; max(0, nan) is 0.
calculate_risk_score(df) ==
    LET volatility == calculate_volatility(df)
        volatility_score ==
            IF volatility.k # "fin" THEN 0
            ELSE Max2(0, FullScore - (500 * volatility.num) \div volatility.den)
        sharpe_score == Clamp(calculate_sharpe_ratio(df) * 50, 0, FullScore)
        drawdown_score == Max2(0, FullScore - calculate_max_drawdown(df) * 500)
    IN  RoundDiv(volatility_score * 4 + sharpe_score * 4 + drawdown_score * 2, 10)

\* 150 / (1 + exp(-0.2 (x - 2.5))) in hundredths, x the 30-day return in
\* tenths of a percent, for the returns of the model
ReturnSigmoid150(x) ==
    CASE x = -500 -> 0
      [] x = 0 -> 5663
      [] x = 25 -> 7500
      [] x = 500 -> 14999

\* calculate_return_score: 0.0 without the close or the date column, and
\* 0.0 from the handler when iloc[-1] finds no row
calculate_return_score(df) ==
    IF df.has_close /\ df.has_date
        THEN IF df.rows = 0 THEN 0
             ELSE Clamp(ReturnSigmoid150(df.return_30d), 0, FullScore)
    ELSE 0

\* 100 / (1 + exp(-0.1 x)) + 50 in hundredths, x the 5-row volume change in
\* percent, for the changes of the model
VolumeSigmoid100(x) ==
    CASE x = -100 -> 5000
      [] x = 0 -> 10000
      [] x = 100 -> 15000

\* calculate_sentiment_score
calculate_sentiment_score(df) ==
    IF df.volume.has
        THEN Clamp(IF df.rows >= MinSentimentRows
                       THEN VolumeSigmoid100(df.volume.v)
                   ELSE 5000, 0, FullScore)
    ELSE 5000

\* calculate_tracking_score.  tracking_error.v and index_close.diff_std are
\* standard deviations in units of 0.001, index_close.corr a correlation in
\* hundredths, etf_size the fund size of get_etf_basic_info (0 when the
\* code is not listed).
calculate_tracking_score(df, etf_size) ==
    IF ~df.tracking_error.has /\ ~(df.index_close.has /\ df.has_close) THEN 6000
    ELSE LET tracking_error ==
                 IF df.tracking_error.has THEN df.tracking_error.v
                 ELSE df.index_close.diff_std
             correlation ==
                 IF df.index_close.has /\ df.has_close THEN df.index_close.corr
                 ELSE 80
             error_score == Max2(0, FullScore - tracking_error * 100)
             correlation_score == Min2(correlation * 100, FullScore)
             tracking_score ==
                 ((error_score * 6 + correlation_score * 4) * (20 + etf_size))
                    \div (10 * (10 + etf_size))
         IN  Clamp(tracking_score, 0, FullScore)

\* calculate_stability_score.  The size history is the current size times
\* 0.95 .. 1.02, so the score of a listed fund of positive size is the one
\* value 55.97; an unlisted code has no history and a size of 0 divides by
\* zero, both give 50.
calculate_stability_score(etf_size) ==
    IF etf_size = 0 THEN 5000 ELSE 5597

\* a slip: the length test one row short, so that a series of
\* MinObservations - 1 rows is scored
calculate_etf_score_short_window(etf_size, df, score_weights_arg, base) ==
    LET weights == IF score_weights_arg.called THEN score_weights_arg
                   ELSE [num |-> base, den |-> WeightUnit]
        recent_30d == [df EXCEPT !.rows = Min2(df.rows, MinObservations)]
        sub == [liquidity |-> calculate_liquidity_score(recent_30d),
                risk |-> calculate_risk_score(recent_30d),
                return |-> calculate_return_score(recent_30d),
                tracking |-> calculate_tracking_score(df, etf_size),
                premium |-> calculate_sentiment_score(recent_30d),
                stability |-> calculate_stability_score(etf_size)]
        total == sub.liquidity * weights.num.liquidity
                    + sub.risk * weights.num.risk
                    + sub.return * weights.num.return
                    + sub.tracking * weights.num.tracking
                    + sub.premium * weights.num.premium
                    + sub.stability * weights.num.stability
    IN  IF df.has_date /\ ~df.sortable
            THEN [score |-> 0, computed |-> FALSE, notified |-> 1]
        ELSE IF df.rows < MinObservations - 1
            THEN [score |-> 0, computed |-> FALSE, notified |-> 0]
        ELSE [score |-> RoundDiv(total, weights.den), computed |-> TRUE,
              sub_scores |-> sub, notified |-> 0]

\* calculate_etf_score.  score_weights_arg is a weight set or None (a record
\* that is not "called"), for which Config.BASE_SCORE_WEIGHTS is taken.  The
\* sort by date raises on a date column that does not sort; the handler
\* sends one notification and returns 0.0.  A series shorter than 30 rows
\* returns 0.0 before any sub-score.  The weight of the key 'premium' goes
\* to the sentiment score.
calculate_etf_score(etf_size, df, score_weights_arg, base) ==
    LET weights == IF score_weights_arg.called THEN score_weights_arg
                   ELSE [num |-> base, den |-> WeightUnit]
        recent_30d == [df EXCEPT !.rows = Min2(df.rows, MinObservations)]
        sub == [liquidity |-> calculate_liquidity_score(recent_30d),
                risk |-> calculate_risk_score(recent_30d),
                return |-> calculate_return_score(recent_30d),
                tracking |-> calculate_tracking_score(df, etf_size),
                premium |-> calculate_sentiment_score(recent_30d),
                stability |-> calculate_stability_score(etf_size)]
        total == sub.liquidity * weights.num.liquidity
                    + sub.risk * weights.num.risk
                    + sub.return * weights.num.return
                    + sub.tracking * weights.num.tracking
                    + sub.premium * weights.num.premium
                    + sub.stability * weights.num.stability
    IN  IF df.has_date /\ ~df.sortable
            THEN [score |-> 0, computed |-> FALSE, notified |-> 1]
        ELSE IF df.rows < MinObservations
            THEN [score |-> 0, computed |-> FALSE, notified |-> 0]
        ELSE [score |-> RoundDiv(total, weights.den), computed |-> TRUE,
              sub_scores |-> sub, notified |-> 0]

\* ------------------------------------------------ the frames of the model

\* a frame with the columns of a plain daily file: date, close, volume and
\* amount, a flat series
NeutralFrame(rows) ==
    [rows |-> rows, has_date |-> TRUE, sortable |-> TRUE,
     amount |-> Col(1000), spread |-> NoCol, bid_volume |-> NoCol,
     ask_volume |-> NoCol, turnover |-> NoCol,
     has_close |-> TRUE, std |-> Fin(0, 1), sharpe |-> 0, max_drawdown |-> 0,
     return_30d |-> 0, volume |-> Col(0),
     tracking_error |-> NoCol, index_close |-> NoCol]

\* the frames that differ from it in what the liquidity score reads
LiquidityFrames(rows) ==
    {[NeutralFrame(rows) EXCEPT !.amount = a, !.spread = sp, !.bid_volume = b,
                                !.ask_volume = k, !.turnover = t] :
        a \in {NoCol, Col(-8000), Col(1000), Col(9000)},
        sp \in {NoCol, Col(-1000), Col(20), Col(20000)},
        b \in {NoCol, Col(0), Col(200)},
        k \in {NoCol, Col(10), Col(200)},
        t \in {NoCol, Col(-5), Col(200)}}

\* ... in what the risk score reads
RiskFrames(rows) ==
    {[NeutralFrame(rows) EXCEPT !.has_close = FALSE]}
    \cup {[NeutralFrame(rows) EXCEPT !.std = Fin(v, 1), !.sharpe = sh,
                                     !.max_drawdown = dd] :
            v \in VolValues, sh \in {-100, 100, 300}, dd \in {0, 10, 30}}

\* ... in what the return score reads
ReturnFrames(rows) ==
    {[NeutralFrame(rows) EXCEPT !.return_30d = r, !.has_date = d] :
        r \in {-500, 0, 25, 500}, d \in BOOLEAN}

\* ... in what the sentiment score reads
SentimentFrames(rows) ==
    {[NeutralFrame(rows) EXCEPT !.volume = v] :
        v \in {NoCol, Col(-100), Col(0), Col(100)}}

\* ... in what the tracking score reads
TrackingFrames(rows) ==
    {[NeutralFrame(rows) EXCEPT !.tracking_error = te, !.index_close = ix] :
        te \in {NoCol, Col(0), Col(50), Col(200)},
        ix \in {NoCol} \cup {[has |-> TRUE, diff_std |-> ds, corr |-> c] :
                                ds \in {0, 200}, c \in {-100, 80, 100}}}

\* a frame whose date column does not sort (values that do not compare)
UnsortableFrame(rows) == [NeutralFrame(rows) EXCEPT !.sortable = FALSE]

ScoreFrames(rows) ==
    LiquidityFrames(rows) \cup RiskFrames(rows) \cup ReturnFrames(rows)
        \cup SentimentFrames(rows) \cup TrackingFrames(rows)
        \cup {UnsortableFrame(rows)}

\* the numbers of rows of the frames of the model
RowCounts ==
    {0, 4, MinSentimentRows, MinObservations - 1, MinObservations, MaxRows}

\* the fund sizes get_etf_basic_info returns, 0 for a code that is not listed
FundSizes == {0, 10, 90}

\* the calls into the scoring module
ScoreCalls ==
    {[fn |-> "calculate_etf_score", df |-> df, etf_size |-> z,
      pass_weights |-> pw] :
        df \in UNION {ScoreFrames(n) : n \in RowCounts},
        z \in FundSizes, pw \in BOOLEAN}
    \cup {[fn |-> "calculate_liquidity_score", df |-> df] :
            df \in UNION {LiquidityFrames(n) : n \in RowCounts \ {0}}}
    \cup {[fn |-> "calculate_risk_score", df |-> df] :
            df \in UNION {RiskFrames(n) : n \in RowCounts \ {0}}}
    \cup {[fn |-> "calculate_return_score", df |-> df] :
            df \in UNION {ReturnFrames(n) : n \in RowCounts}}
    \cup {[fn |-> "calculate_sentiment_score", df |-> df] :
            df \in UNION {SentimentFrames(n) : n \in RowCounts \ {0}}}
    \cup {[fn |-> "calculate_tracking_score", df |-> df, etf_size |-> z] :
            df \in UNION {TrackingFrames(n) : n \in RowCounts \ {0}},
            z \in FundSizes}
    \cup {[fn |-> "calculate_stability_score", etf_size |-> z] : z \in FundSizes}

\* ---------------------------------------------------- claims on scoring

SumOfWeights(w) ==
    w.liquidity + w.risk + w.return + w.tracking + w.premium + w.stability

\* C3: for every regime the six weights adjust_score_weights returns sum to
\* 1: the numerators sum to the denominator they are divided by.
C3_AdjustedWeightsSumToOne ==
    score_weights.called =>
        /\ DOMAIN score_weights.num = WeightKeys
        /\ score_weights.den > 0
        /\ SumOfWeights(score_weights.num) = score_weights.den

\* adjust_score_weights has run for a regime whose tweaks change the total
C3_Witness ==
    /\ score_weights.called
    /\ score_weights.market_condition = "bear"
    /\ SumOfWeights(score_weights.num) # SumOfWeights(BASE_SCORE_WEIGHTS)

\* C4: on a series of fewer than 30 rows calculate_etf_score returns 0.0,
\* whatever the weights, and computes no sub-score.
C4_ShortSeriesScoresZero ==
    (/\ scoreRet.called
     /\ scoreArgs.fn = "calculate_etf_score"
     /\ scoreArgs.df.rows < MinObservations)
        => /\ scoreRet.score = 0
           /\ ~scoreRet.computed
           /\ scoreRet.sub_scores = <<>>

\* calculate_etf_score has returned for a series of 29 rows that sorts,
\* called with adjusted weights
C4_Witness ==
    /\ scoreRet.called
    /\ scoreArgs.fn = "calculate_etf_score"
    /\ scoreArgs.df.rows = MinObservations - 1
    /\ scoreArgs.df.sortable
    /\ scoreArgs.pass_weights
    /\ score_weights.called
    /\ scoreRet.notified = 0

InRange(x) == 0 <= x /\ x <= FullScore

SubScoreFunctions ==
    {"calculate_liquidity_score", "calculate_risk_score",
     "calculate_return_score", "calculate_sentiment_score",
     "calculate_tracking_score", "calculate_stability_score"}

\* C5: each of the six sub-score functions returns a value in [0, 100],
\* called by itself or by calculate_etf_score, also on frames with missing
\* optional columns and with negative or extreme column values.
C5_SubScoresInRange ==
    scoreRet.called =>
        /\ scoreArgs.fn \in SubScoreFunctions => InRange(scoreRet.score)
        /\ (scoreArgs.fn = "calculate_etf_score" /\ scoreRet.computed) =>
                \A k \in WeightKeys : InRange(scoreRet.sub_scores[k])

\* What the code does keep of C5: the five sub-scores other than the
\* liquidity score are in [0, 100], and so is the liquidity score of a frame
\* whose spread is not negative.
FiveSubScoresInRange ==
    scoreRet.called =>
        /\ scoreArgs.fn \in SubScoreFunctions \ {"calculate_liquidity_score"}
                => InRange(scoreRet.score)
        /\ (scoreArgs.fn = "calculate_etf_score" /\ scoreRet.computed) =>
                \A k \in WeightKeys \ {"liquidity"} :
                    InRange(scoreRet.sub_scores[k])
        /\ (/\ scoreArgs.fn = "calculate_liquidity_score"
            /\ (scoreArgs.df.spread.has => scoreArgs.df.spread.v >= 0))
                => InRange(scoreRet.score)

InitScore ==
    /\ IdleSelect
    /\ IdleParity
    /\ IdleRisk
    /\ IdleLevel
    /\ IdleLater
    /\ BASE_SCORE_WEIGHTS = BaseScoreWeights
    /\ score_weights = NoCall
    /\ scoreArgs \in ScoreCalls
    /\ scoreRet = NoCall

\* get_top_rated_etfs: score_weights = adjust_score_weights(market_condition)
AdjustScoreWeights ==
    /\ ~scoreRet.called
    /\ \E market_condition \in Regimes :
        LET w == adjust_score_weights(BASE_SCORE_WEIGHTS, market_condition)
        IN  score_weights' = [called |-> TRUE,
                              market_condition |-> market_condition,
                              num |-> w.num, den |-> w.den]
    /\ UNCHANGED <<selVars, parVars, riskVars, levelVars, BASE_SCORE_WEIGHTS,
                   scoreArgs, scoreRet,
                laterVars>>

\* what a call leaves alone
ScoreFrame ==
    UNCHANGED <<selVars, parVars, riskVars, levelVars, BASE_SCORE_WEIGHTS,
                score_weights, scoreArgs,
                laterVars>>

CalculateEtfScore ==
    /\ ~scoreRet.called
    /\ scoreArgs.fn = "calculate_etf_score"
    /\ LET r == calculate_etf_score(
                    scoreArgs.etf_size, scoreArgs.df,
                    IF scoreArgs.pass_weights THEN score_weights ELSE NoCall,
                    BASE_SCORE_WEIGHTS)
       IN  scoreRet' = [called |-> TRUE, score |-> r.score,
                        computed |-> r.computed, notified |-> r.notified,
                        sub_scores |-> IF r.computed THEN r.sub_scores ELSE <<>>]
    /\ ScoreFrame

CalculateLiquidityScore ==
    /\ ~scoreRet.called
    /\ scoreArgs.fn = "calculate_liquidity_score"
    /\ scoreRet' = [called |-> TRUE,
                    score |-> calculate_liquidity_score(scoreArgs.df)]
    /\ ScoreFrame

CalculateRiskScore ==
    /\ ~scoreRet.called
    /\ scoreArgs.fn = "calculate_risk_score"
    /\ scoreRet' = [called |-> TRUE, score |-> calculate_risk_score(scoreArgs.df)]
    /\ ScoreFrame

CalculateReturnScore ==
    /\ ~scoreRet.called
    /\ scoreArgs.fn = "calculate_return_score"
    /\ scoreRet' = [called |-> TRUE,
                    score |-> calculate_return_score(scoreArgs.df)]
    /\ ScoreFrame

CalculateSentimentScore ==
    /\ ~scoreRet.called
    /\ scoreArgs.fn = "calculate_sentiment_score"
    /\ scoreRet' = [called |-> TRUE,
                    score |-> calculate_sentiment_score(scoreArgs.df)]
    /\ ScoreFrame

CalculateTrackingScore ==
    /\ ~scoreRet.called
    /\ scoreArgs.fn = "calculate_tracking_score"
    /\ scoreRet' = [called |-> TRUE,
                    score |-> calculate_tracking_score(scoreArgs.df,
                                                       scoreArgs.etf_size)]
    /\ ScoreFrame

CalculateStabilityScore ==
    /\ ~scoreRet.called
    /\ scoreArgs.fn = "calculate_stability_score"
    /\ scoreRet' = [called |-> TRUE,
                    score |-> calculate_stability_score(scoreArgs.etf_size)]
    /\ ScoreFrame

NextScore ==
    \/ AdjustScoreWeights
    \/ CalculateEtfScore
    \/ CalculateLiquidityScore
    \/ CalculateRiskScore
    \/ CalculateReturnScore
    \/ CalculateSentimentScore
    \/ CalculateTrackingScore
    \/ CalculateStabilityScore

SpecScore == InitScore /\ [][NextScore]_vars

\* ====================================================== risk monitoring
\* position.py: monitor_portfolio_risk, the six metrics and the composite
\* level.  The metrics are in millionths.

\* 1.0 in millionths
One == 1000000

RECURSIVE SumSeq(_)
SumSeq(xs) == IF xs = <<>> THEN 0 ELSE xs[1] + SumSeq(Tail(xs))

RECURSIVE Concat(_)
Concat(rows) == IF rows = <<>> THEN <<>> ELSE rows[1] \o Concat(Tail(rows))

\* ------------------------------------------------- double precision
\* The weighted sum of calculate_overall_risk_level is computed in IEEE
\* doubles.  A double near a multiple of 0.005 is the record Dbl(m, e): the
\* value m / 200 + e * 2^-57 / 25, e its rounding error.

Dbl(m, e) == [m |-> m, e |-> e]

\* k with 2^-57 * 2^k the spacing of the doubles around m / 200, m >= 7
BinadeExponent(m) ==
    IF m >= 200 THEN 5
    ELSE IF m >= 100 THEN 4
    ELSE IF m >= 50 THEN 3
    ELSE IF m >= 25 THEN 2
    ELSE IF 2 * m >= 25 THEN 1
    ELSE 0

\* that spacing, in the unit of the errors
Ulp(m) == 25 * 2^BinadeExponent(m)

RECURSIVE Pow2Mod25(_)
Pow2Mod25(n) == IF n = 0 THEN 1 ELSE (2 * Pow2Mod25(n - 1)) % 25

\* m / 200 is m * 2^54 units; its residue modulo 25 * 2^j
Residue(m, j) == 2^j * ((Pow2Mod25(54 - j) * m) % 25)

\* the error of the double nearest to m / 200
NearestError(m) ==
    LET r == Residue(m, BinadeExponent(m))
    IN  IF 2 * r < Ulp(m) THEN 0 - r ELSE Ulp(m) - r

\* the double a decimal literal m / 200 denotes
NearestDouble(m) == IF m = 0 THEN Dbl(0, 0) ELSE Dbl(m, NearestError(m))

\* whether the mantissa of that double is odd
MantissaOdd(m) ==
    (Residue(m, BinadeExponent(m) + 1) + NearestError(m)) % (2 * Ulp(m)) = Ulp(m)

\* x + y: the exact sum rounded to the nearest double, ties to the even
\* mantissa; below a power of two the doubles are spaced half as wide
DoubleAdd(x, y) ==
    IF x.m = 0 THEN y
    ELSE IF y.m = 0 THEN x
    ELSE LET m == x.m + y.m
             d == x.e + y.e - NearestError(m)
             u == IF m \in {25, 50, 100, 200} /\ d < 0
                     THEN Ulp(m) \div 2 ELSE Ulp(m)
             j == d \div u
             r == d - j * u
             up == \/ 2 * r > u
                   \/ 2 * r = u /\ (MantissaOdd(m) # (j % 2 = 1))
         IN  Dbl(m, NearestError(m) + (IF up THEN j + 1 ELSE j) * u)

\* score * weight for a score of 0, 0.5 or 1 (in millionths), products that
\* are exact in doubles
DoubleScale(weight, score) ==
    CASE score = 0 -> Dbl(0, 0)
      [] score = One \div 2 -> Dbl(weight.m \div 2, weight.e \div 2)
      [] score = One -> weight

DoubleGreater(x, y) == x.m > y.m \/ (x.m = y.m /\ x.e > y.e)

\* --------------------------------------------------- composite level

\* metric_to_score of calculate_overall_risk_level
metric_to_score(metric) == Min2(Max2(metric, 0), One)

\* the weights 0.2, 0.2, 0.2, 0.15, 0.15, 0.1, in units of 0.005
RiskWeights == <<40, 40, 40, 30, 30, 20>>

\* the thresholds 0.7 and 0.4, in units of 0.005
HighThreshold == 140

MediumThreshold == 80

\* the weighted sum over the reals, in units of 0.005 millionths
ExactWeightedSum(risk_scores) ==
    SumSeq([i \in 1..6 |-> risk_scores[i] * RiskWeights[i]])

\* sum(s * w for s, w in zip(risk_scores, weights)), in doubles
RECURSIVE DoubleWeightedSum(_, _)
DoubleWeightedSum(risk_scores, n) ==
    IF n = 0 THEN Dbl(0, 0)
    ELSE DoubleAdd(DoubleWeightedSum(risk_scores, n - 1),
                   DoubleScale(NearestDouble(RiskWeights[n]), risk_scores[n]))

\* weighted_avg > threshold.  The sum in doubles is within 1e-15 of the
\* exact sum, and the exact sums of metrics in millionths are 5e-9 apart, so
\* the rounding decides only when the exact sum is the threshold.
WeightedAvgAbove(risk_scores, threshold) ==
    LET exact == ExactWeightedSum(risk_scores)
    IN  IF exact # threshold * One THEN exact > threshold * One
        ELSE DoubleGreater(DoubleWeightedSum(risk_scores, 6),
                           NearestDouble(threshold))

\* calculate_overall_risk_level
calculate_overall_risk_level(risk_metrics) ==
    LET risk_scores == [i \in 1..6 |-> metric_to_score(risk_metrics[i])]
    IN  IF WeightedAvgAbove(risk_scores, HighThreshold) THEN "high"
        ELSE IF WeightedAvgAbove(risk_scores, MediumThreshold) THEN "medium"
        ELSE "low"

\* generate_risk_alert: the fixed text of a level
generate_risk_alert(risk_level) ==
    IF risk_level = "high" THEN "high risk: cut the position"
    ELSE IF risk_level = "medium" THEN "medium risk: reduce the position"
    ELSE "risk level normal"

\* --------------------------------------- claims on the composite level

LevelRank(level) ==
    IF level = "high" THEN 2 ELSE IF level = "medium" THEN 1 ELSE 0

\* the level the thresholds give to a weighted sum over the reals
LevelOfSum(exact) ==
    IF exact > HighThreshold * One THEN "high"
    ELSE IF exact > MediumThreshold * One THEN "medium"
    ELSE "low"

\* the values of a metric: below 0, 0, 0.5, 1, above 1
MetricValues == {0 - 100000, 0, One \div 2, One, 1200000}

\* raising one metric of the call never lowers the level
RaisingNeverLowers ==
    levelRet.called =>
        \A i \in 1..6 : \A v \in MetricValues :
            v >= levelArgs.risk_metrics[i] =>
                LevelRank(calculate_overall_risk_level(
                    [levelArgs.risk_metrics EXCEPT ![i] = v]))
                    >= LevelRank(levelRet.level)

\* C10: the level is that of the weighted sum of the six metrics clamped to
\* [0, 1], with the weights 0.20, 0.20, 0.20, 0.15, 0.15, 0.10: "high" iff
\* the sum is above 0.7, "medium" iff it is above 0.4 and at most 0.7, "low"
\* otherwise; and raising one metric never lowers the level.
C10_LevelOfClampedWeightedSum ==
    levelRet.called =>
        /\ levelRet.level =
            LevelOfSum(ExactWeightedSum(
                [i \in 1..6 |-> metric_to_score(levelArgs.risk_metrics[i])]))
        /\ \A i \in 1..6 : \A v \in MetricValues :
                v >= levelArgs.risk_metrics[i] =>
                    LevelRank(calculate_overall_risk_level(
                        [levelArgs.risk_metrics EXCEPT ![i] = v]))
                        >= LevelRank(levelRet.level)

\* away from the two thresholds the level is that of the weighted sum
LevelAwayFromThresholds ==
    LET exact == ExactWeightedSum(
                    [i \in 1..6 |-> metric_to_score(levelArgs.risk_metrics[i])])
    IN  (levelRet.called /\ exact \notin {HighThreshold * One, MediumThreshold * One})
            => levelRet.level = LevelOfSum(exact)

InitLevel ==
    /\ IdleSelect
    /\ IdleParity
    /\ IdleScore
    /\ IdleRisk
    /\ IdleLater
    /\ \E risk_metrics \in [1..6 -> MetricValues] :
            levelArgs = [risk_metrics |-> risk_metrics]
    /\ levelRet = NoCall

\* one call of calculate_overall_risk_level on the drawn metrics
CalculateOverallRiskLevel ==
    /\ ~levelRet.called
    /\ levelRet' = [called |-> TRUE,
                    level |-> calculate_overall_risk_level(levelArgs.risk_metrics)]
    /\ UNCHANGED <<selVars, parVars, scoreVars, riskVars, levelArgs, laterVars>>

NextLevel == CalculateOverallRiskLevel

SpecLevel == InitLevel /\ [][NextLevel]_vars

\* ------------------------------------------------------- the metrics

\* what a metric function returns and did: its value, whether an exception
\* was raised inside it, and its calls of load_etf_daily_data
Metric(value, raised, loads) ==
    [value |-> value, raised |-> raised, loads |-> loads]

\* The loop of a metric function over the codes: it loads the price data of
\* each code and calls the function "name" on those that are not empty; the
\* call raises NameError when the name does not resolve.
PriceLoop(etf_codes, daily_data, name) ==
    LET loaded == [i \in 1..Len(etf_codes) |-> daily_data[etf_codes[i]]]
        with_data == {i \in 1..Len(etf_codes) : loaded[i].rows > 0}
        raised == ~ResolvesInPosition(name) /\ with_data # {}
    IN  [raised |-> raised,
         loads |-> IF raised
                      THEN CHOOSE i \in with_data : \A k \in with_data : i <= k
                   ELSE Len(etf_codes),
         frames |-> SelectSeq(loaded, LAMBDA df : df.rows > 0)]

\* calculate_volatility in millionths (its unit in the frames is 0.05)
VolatilityMillionths(df) ==
    LET v == calculate_volatility(df)
    IN  (v.num * 50000) \div v.den

\* calculate_portfolio_volatility: the plain mean of the volatilities, 0.1
\* when no instrument has data, 0.15 from the handler
calculate_portfolio_volatility(etf_codes, daily_data) ==
    IF etf_codes = <<>> THEN Metric(0, FALSE, 0)
    ELSE LET loop == PriceLoop(etf_codes, daily_data, "calculate_volatility")
             volatilities ==
                [i \in 1..Len(loop.frames) |-> VolatilityMillionths(loop.frames[i])]
         IN  IF loop.raised THEN Metric(150000, TRUE, loop.loads)
             ELSE IF volatilities = <<>> THEN Metric(100000, FALSE, loop.loads)
             ELSE Metric(SumSeq(volatilities) \div Len(volatilities), FALSE,
                         loop.loads)

\* calculate_var for 1 day at 95%: the portfolio volatility (computed once
\* more) times 1.645
calculate_var(etf_codes, daily_data) ==
    IF etf_codes = <<>> THEN Metric(0, FALSE, 0)
    ELSE LET portfolio_volatility ==
                calculate_portfolio_volatility(etf_codes, daily_data)
         IN  Metric((portfolio_volatility.value * 329) \div 200,
                    portfolio_volatility.raised, portfolio_volatility.loads)

\* calculate_max_drawdown_warning: the mean of the maximal drawdowns (in
\* hundredths in the frames), 0.1 without data, 0.15 from the handler
calculate_max_drawdown_warning(etf_codes, daily_data) ==
    IF etf_codes = <<>> THEN Metric(0, FALSE, 0)
    ELSE LET loop == PriceLoop(etf_codes, daily_data, "calculate_max_drawdown")
             max_drawdowns ==
                [i \in 1..Len(loop.frames) |->
                    calculate_max_drawdown(loop.frames[i]) * 10000]
         IN  IF loop.raised THEN Metric(150000, TRUE, loop.loads)
             ELSE IF max_drawdowns = <<>> THEN Metric(100000, FALSE, loop.loads)
             ELSE Metric(SumSeq(max_drawdowns) \div Len(max_drawdowns), FALSE,
                         loop.loads)

\* monitor_liquidity_risk: 1 - mean liquidity score / 100, 0.5 without data
\* and from the handler
monitor_liquidity_risk(etf_codes, daily_data) ==
    IF etf_codes = <<>> THEN Metric(0, FALSE, 0)
    ELSE LET loop == PriceLoop(etf_codes, daily_data, "calculate_liquidity_score")
             liquidity_scores ==
                [i \in 1..Len(loop.frames) |->
                    calculate_liquidity_score(loop.frames[i])]
         IN  IF loop.raised THEN Metric(500000, TRUE, loop.loads)
             ELSE IF liquidity_scores = <<>> THEN Metric(500000, FALSE, loop.loads)
             ELSE Metric(One - (SumSeq(liquidity_scores) * 100)
                                    \div Len(liquidity_scores),
                         FALSE, loop.loads)

\* etf_scoring.py: calculate_tracking_error, in thousandths: the standard
\* deviation of the tracking error column, or of close - index close, or 0.05
calculate_tracking_error(df) ==
    IF df.tracking_error.has THEN df.tracking_error.v
    ELSE IF df.index_close.has /\ df.has_close THEN df.index_close.diff_std
    ELSE 50

\* monitor_tracking_risk: the mean tracking error, 0.05 without data, 0.08
\* from the handler
monitor_tracking_risk(etf_codes, daily_data) ==
    IF etf_codes = <<>> THEN Metric(0, FALSE, 0)
    ELSE LET loop == PriceLoop(etf_codes, daily_data, "calculate_tracking_error")
             tracking_errors ==
                [i \in 1..Len(loop.frames) |->
                    calculate_tracking_error(loop.frames[i]) * 1000]
         IN  IF loop.raised THEN Metric(80000, TRUE, loop.loads)
             ELSE IF tracking_errors = <<>> THEN Metric(50000, FALSE, loop.loads)
             ELSE Metric(SumSeq(tracking_errors) \div Len(tracking_errors), FALSE,
                         loop.loads)

\* monitor_correlation_risk: the mean of the pairwise correlations, each set
\* to 0.5 by calculate_correlation_matrix_for_codes; 0 for fewer than two
\* codes.  It loads no price data.
monitor_correlation_risk(etf_codes) ==
    IF Len(etf_codes) < 2 THEN Metric(0, FALSE, 0)
    ELSE Metric(500000, FALSE, 0)

\* ------------------------------------------------ monitor_portfolio_risk

\* the two texts monitor_portfolio_risk sets itself
NoHoldingsAlert == "no holdings, risk minimal"

SystemFailureAlert == "risk monitoring system failure, check at once"

\* the codes the loop over the rows of the position record collects; a row
\* whose code field is nan or "" gives none
HeldCodes(positions) == Concat(positions.rows)

\* the six metric functions in the order of the calls
RiskMetrics(etf_codes, daily_data) ==
    <<[name |-> "portfolio_volatility",
       result |-> calculate_portfolio_volatility(etf_codes, daily_data)],
      [name |-> "var_1d", result |-> calculate_var(etf_codes, daily_data)],
      [name |-> "max_drawdown_warning",
       result |-> calculate_max_drawdown_warning(etf_codes, daily_data)],
      [name |-> "liquidity_risk",
       result |-> monitor_liquidity_risk(etf_codes, daily_data)],
      [name |-> "tracking_risk",
       result |-> monitor_tracking_risk(etf_codes, daily_data)],
      [name |-> "correlation_risk", result |-> monitor_correlation_risk(etf_codes)]>>

\* the snapshot of a pass whose metrics were computed
Snapshot(metrics, overall_risk_level, risk_alert) ==
    [overall_risk_level |-> overall_risk_level, risk_alert |-> risk_alert,
     has_metrics |-> TRUE,
     metrics |-> [i \in 1..6 |-> metrics[i].result.value],
     raised |-> {metrics[i].name : i \in {k \in 1..6 : metrics[k].result.raised}},
     loads |-> SumSeq([i \in 1..6 |-> metrics[i].result.loads])]

\* a slip: no early return for an empty portfolio
monitor_portfolio_risk_no_early_return(positions, daily_data) ==
    IF positions.rows # <<>> /\ ~positions.has_etf_code
        THEN [overall_risk_level |-> "high", risk_alert |-> SystemFailureAlert,
              has_metrics |-> FALSE, metrics |-> <<>>,
              raised |-> {"positions"}, loads |-> 0]
    ELSE LET metrics == RiskMetrics(HeldCodes(positions), daily_data)
             overall_risk_level ==
                calculate_overall_risk_level(
                    [i \in 1..6 |-> metrics[i].result.value])
         IN  Snapshot(metrics, overall_risk_level,
                      generate_risk_alert(overall_risk_level))

\* monitor_portfolio_risk.  Reading a row of a record without the code
\* column raises KeyError, which reaches the handler: "high", the failure
\* text and no metric.  An exception inside a metric function is caught
\* there, and the level is computed from the value its handler returns.
monitor_portfolio_risk(positions, daily_data) ==
    IF positions.rows # <<>> /\ ~positions.has_etf_code
        THEN [overall_risk_level |-> "high", risk_alert |-> SystemFailureAlert,
              has_metrics |-> FALSE, metrics |-> <<>>,
              raised |-> {"positions"}, loads |-> 0]
    ELSE IF HeldCodes(positions) = <<>>
        THEN [overall_risk_level |-> "low", risk_alert |-> NoHoldingsAlert,
              has_metrics |-> TRUE, metrics |-> <<0, 0, 0, 0, 0, 0>>,
              raised |-> {}, loads |-> 0]
    ELSE LET metrics == RiskMetrics(HeldCodes(positions), daily_data)
             overall_risk_level ==
                calculate_overall_risk_level(
                    [i \in 1..6 |-> metrics[i].result.value])
         IN  Snapshot(metrics, overall_risk_level,
                      generate_risk_alert(overall_risk_level))

\* ---------------------------------------------- claims on the monitoring

\* C8: whenever a step of the pass fails, a failure inside the computation
\* of a metric included, the pass reports "high" with the system-failure
\* alert, never "low" or "medium" computed from default metric values.
C8_AnyFailureReportsHigh ==
    (riskRet.called /\ riskRet.raised # {}) =>
        /\ riskRet.overall_risk_level = "high"
        /\ riskRet.risk_alert = SystemFailureAlert

\* a failure in the reading of the position record is reported as "high"
\* with the system-failure alert
RecordFailureReportsHigh ==
    (riskRet.called /\ "positions" \in riskRet.raised) =>
        /\ riskRet.overall_risk_level = "high"
        /\ riskRet.risk_alert = SystemFailureAlert

\* the record can be read and no bucket of it holds an instrument
NoHoldings(positions) ==
    /\ positions.has_etf_code \/ positions.rows = <<>>
    /\ HeldCodes(positions) = <<>>

\* C9: when no bucket holds an instrument the pass returns "low", the
\* no-holdings alert and 0.0 for the six metrics, and loads no price data.
C9_NoHoldingsLowRisk ==
    (riskRet.called /\ NoHoldings(riskArgs.positions)) =>
        /\ riskRet.overall_risk_level = "low"
        /\ riskRet.risk_alert = NoHoldingsAlert
        /\ riskRet.has_metrics
        /\ riskRet.metrics = <<0, 0, 0, 0, 0, 0>>
        /\ riskRet.loads = 0

\* the pass has run on a record with buckets, none of which holds an
\* instrument, while price data exists
C9_Witness ==
    /\ riskRet.called
    /\ NoHoldings(riskArgs.positions)
    /\ Len(riskArgs.positions.rows) >= 1
    /\ \E code \in DOMAIN riskArgs.daily_data : riskArgs.daily_data[code].rows > 0

\* the code fields of a bucket row: the codes 1..MaxHeld in ascending
\* order, none for an empty field
RECURSIVE CodeLists(_)
CodeLists(n) ==
    IF n = 0 THEN {<<>>}
    ELSE CodeLists(n - 1) \cup {Append(c, n) : c \in CodeLists(n - 1)}

\* the position records: with the code column, or without it (the rows then
\* have no code field)
PositionRecords ==
    UNION {{[has_etf_code |-> TRUE, rows |-> r] :
                r \in [1..n -> CodeLists(MaxHeld)]}
           \cup {[has_etf_code |-> FALSE, rows |-> [i \in 1..n |-> <<>>]]} :
                n \in 0..MaxBuckets}

\* the price data of a code: none, a flat series, an illiquid series far
\* off its index, a series with a negative spread column
RiskDataFrames ==
    {NeutralFrame(0), NeutralFrame(MinObservations),
     [NeutralFrame(MinObservations) EXCEPT !.amount = Col(0 - 8000),
                                           !.spread = Col(20000),
                                           !.tracking_error = Col(1000)],
     [NeutralFrame(MinObservations) EXCEPT !.spread = Col(0 - 1000)]}

InitRisk ==
    /\ IdleSelect
    /\ IdleParity
    /\ IdleScore
    /\ IdleLevel
    /\ IdleLater
    /\ \E positions \in PositionRecords,
          daily_data \in [1..MaxHeld -> RiskDataFrames] :
            riskArgs = [positions |-> positions, daily_data |-> daily_data]
    /\ riskRet = NoCall

\* one pass of monitor_portfolio_risk on the drawn record and price data
MonitorPortfolioRisk ==
    /\ ~riskRet.called
    /\ riskRet' = [called |-> TRUE] @@
                  monitor_portfolio_risk(riskArgs.positions, riskArgs.daily_data)
    /\ UNCHANGED <<selVars, parVars, scoreVars, riskArgs, levelVars, laterVars>>

NextRisk == MonitorPortfolioRisk

SpecRisk == InitRisk /\ [][NextRisk]_vars

\* ====================================================== position sizing
\* position.py: adjust_position_size.  The volatility and the base position
\* are in hundredths, the returned fraction in ten-thousandths.

RiskLevels == {"low", "medium", "high"}

\* a slip: the adjusted position is returned without the two limits
adjust_position_size_unlimited(risk_level, market_condition, volatility) ==
    LET base_position ==
            60 - (IF risk_level = "high" THEN 30
                  ELSE IF risk_level = "medium" THEN 10 ELSE 0)
               + (IF market_condition = "bear" THEN 0 - 20
                  ELSE IF market_condition = "bull" THEN 10 ELSE 0)
        volatility_factor == 100 - Min2(Max2((volatility - 10) * 2, 0), 30)
    IN  base_position * volatility_factor

\* adjust_position_size
adjust_position_size(risk_level, market_condition, volatility) ==
    LET after_risk ==
            IF risk_level = "high" THEN 60 - 30
            ELSE IF risk_level = "medium" THEN 60 - 10
            ELSE 60
        base_position ==
            IF market_condition = "bear" THEN after_risk - 20
            ELSE IF market_condition = "bull" THEN after_risk + 10
            ELSE after_risk
        volatility_factor == 100 - Min2(Max2((volatility - 10) * 2, 0), 30)
        adjusted_position == base_position * volatility_factor
        min_position == 2000
        max_position == 8000
    IN  Max2(Min2(adjusted_position, max_position), min_position)

\* ---------------------------------------------- claims on the sizing

\* the target exposure as the claim states it, in ten-thousandths
TargetExposure(risk_level, regime, volatility) ==
    LET risk_cut == CASE risk_level = "high" -> 30
                      [] risk_level = "medium" -> 10
                      [] risk_level = "low" -> 0
        regime_shift == CASE regime = "bear" -> 0 - 20
                          [] regime = "bull" -> 10
                          [] regime = "sideways" -> 0
        excess == (volatility - 10) * 2
        damping == IF excess < 0 THEN 0 ELSE IF excess > 30 THEN 30 ELSE excess
        exposure == (60 - risk_cut + regime_shift) * (100 - damping)
    IN  IF exposure < 2000 THEN 2000 ELSE IF exposure > 8000 THEN 8000 ELSE exposure

\* C11: for every risk level, regime and volatility the position size is
\* (0.60 less 0.30 for high or 0.10 for medium risk, less 0.20 in a bear or
\* plus 0.10 in a bull regime) times 1 - clamp((volatility - 0.10) * 2, 0,
\* 0.30), clamped to [0.20, 0.80]; it lies in [0.20, 0.80] and never
\* increases when the risk level worsens or the volatility rises.
C11_PositionSize ==
    (callRet.called /\ callArgs.fn = "adjust_position_size") =>
        /\ callRet.value = TargetExposure(callArgs.risk_level,
                                          callArgs.market_condition,
                                          callArgs.volatility)
        /\ 2000 <= callRet.value /\ callRet.value <= 8000
        /\ \A r \in RiskLevels : \A v \in 0..MaxVolatility :
                (LevelRank(r) >= LevelRank(callArgs.risk_level)
                    /\ v >= callArgs.volatility)
                => adjust_position_size(r, callArgs.market_condition, v)
                        <= callRet.value

\* the sizing has run at high risk in a bear regime, where the lower limit
\* acts
C11_Witness ==
    /\ callRet.called
    /\ callArgs.fn = "adjust_position_size"
    /\ callArgs.risk_level = "high"
    /\ callArgs.market_condition = "bear"
    /\ callArgs.volatility > 10
    /\ callRet.value = 2000

InitSize ==
    /\ IdleSelect
    /\ IdleParity
    /\ IdleScore
    /\ IdleRisk
    /\ IdleLevel
    /\ IdleConfig
    /\ \E risk_level \in RiskLevels, market_condition \in Regimes,
          volatility \in 0..MaxVolatility :
            callArgs = [fn |-> "adjust_position_size", risk_level |-> risk_level,
                        market_condition |-> market_condition,
                        volatility |-> volatility]
    /\ callRet = NoCall

\* one call of adjust_position_size on the drawn arguments
AdjustPositionSize ==
    /\ ~callRet.called
    /\ callArgs.fn = "adjust_position_size"
    /\ callRet' = [called |-> TRUE,
                   value |-> adjust_position_size(callArgs.risk_level,
                                                  callArgs.market_condition,
                                                  callArgs.volatility)]
    /\ UNCHANGED <<selVars, parVars, scoreVars, riskVars, levelVars, callArgs, configVars>>

NextSize == AdjustPositionSize

SpecSize == InitSize /\ [][NextSize]_vars

\* ===================================================== strategy buckets
\* the bucket names of the program: those of the rows init_position_record
\* creates
BucketNames == {"stable", "aggressive", "arbitrage", "growth", "sector"}

\* the buckets the loop of calculate_position_strategy evaluates: "稳健仓",
\* "激进仓", "成长仓" (growth), "行业仓" (sector)
PassBuckets == <<"stable", "aggressive", "growth", "sector">>

\* Config.STRATEGY_PARAMETERS[position_type] raises KeyError for a name
\* that is not a key
HasParameters(position_type) == position_type \in DOMAIN StrategyParameters

\* ======================================================== stop loss
\* position.py: calculate_dynamic_stop_loss.  What a call does: it returns
\* a value (a ratio in ten-thousandths) or raises to its caller.

Returned(value) == [raised |-> FALSE, value |-> value]

Raises(error) == [raised |-> TRUE, error |-> error]

\* the handler: the static ratio of the bucket, by a lookup that raises for
\* a name without parameters
StopLossHandler(position_type) ==
    IF HasParameters(position_type)
        THEN Returned(StrategyParameters[position_type].stop_loss_ratio)
    ELSE Raises("KeyError")

\* the ratio for a volatility that calculate_volatility returned (a float
\* of the risk parity model, in units of 0.05): the price cancels
ScaledStopLoss(stop_loss_ratio, volatility) ==
    LET scaled ==
            IF volatility.k = "fin" /\ volatility.num > 4 * volatility.den
                THEN (stop_loss_ratio * 12) \div 10
            ELSE IF volatility.k = "fin" /\ volatility.num < 2 * volatility.den
                THEN (stop_loss_ratio * 8) \div 10
            ELSE stop_loss_ratio
        min_ratio == 100
        max_ratio == 1500
    IN  Max2(Min2(scaled, max_ratio), min_ratio)

\* calculate_dynamic_stop_loss.  calculate_atr does not raise; reading the
\* last close raises on a frame without rows or without the close column,
\* the parameter lookup raises for a name without parameters, and the call
\* of calculate_volatility raises NameError when the name does not resolve:
\* each reaches the handler.
calculate_dynamic_stop_loss(df, position_type) ==
    IF df.rows = 0 \/ ~df.has_close THEN StopLossHandler(position_type)
    ELSE IF ~HasParameters(position_type) THEN StopLossHandler(position_type)
    ELSE IF ~ResolvesInPosition("calculate_volatility")
        THEN StopLossHandler(position_type)
    ELSE Returned(ScaledStopLoss(StrategyParameters[position_type].stop_loss_ratio,
                                 calculate_volatility(df)))

\* ---------------------------------------------- claims on the stop loss

InPass(position_type) == \E i \in 1..Len(PassBuckets) : PassBuckets[i] = position_type

\* C12: for every bucket the strategy pass evaluates and every price series
\* the dynamic stop loss is a fraction in [0.01, 0.15], equal to the
\* bucket's static stop_loss_ratio scaled by 1.2 when the volatility is
\* above 0.20, by 0.8 when it is below 0.10 and by 1 otherwise, and the
\* function never raises to its caller.
C12_DynamicStopLoss ==
    (callRet.called /\ callArgs.fn = "calculate_dynamic_stop_loss"
        /\ InPass(callArgs.position_type)) =>
        /\ ~callRet.raised
        /\ 100 <= callRet.value /\ callRet.value <= 1500
        /\ (callArgs.df.rows > 0 /\ callArgs.df.has_close
                /\ HasParameters(callArgs.position_type)) =>
            callRet.value =
                ScaledStopLoss(StrategyParameters[callArgs.position_type].stop_loss_ratio,
                               callArgs.df.std)

\* for a bucket with parameters the stop loss is the static ratio of the
\* bucket, whatever the price series
StopLossIsStaticRatio ==
    (callRet.called /\ callArgs.fn = "calculate_dynamic_stop_loss"
        /\ HasParameters(callArgs.position_type)) =>
        /\ ~callRet.raised
        /\ callRet.value = StrategyParameters[callArgs.position_type].stop_loss_ratio

\* the price series handed to the stop loss: with or without the close
\* column, of volatility 0.05 to 0.30
StopLossFrames ==
    {[NeutralFrame(rows) EXCEPT !.has_close = FALSE] : rows \in {1, 19, 20, MinObservations}}
    \cup {[NeutralFrame(rows) EXCEPT !.std = Fin(v, 1)] :
            rows \in {1, 19, 20, MinObservations}, v \in {1, 2, 3, 4, 6}}

InitStopLoss ==
    /\ IdleSelect
    /\ IdleParity
    /\ IdleScore
    /\ IdleRisk
    /\ IdleLevel
    /\ IdleConfig
    /\ \E df \in StopLossFrames, position_type \in BucketNames :
            callArgs = [fn |-> "calculate_dynamic_stop_loss", df |-> df,
                        position_type |-> position_type]
    /\ callRet = NoCall

\* one call of calculate_dynamic_stop_loss on the drawn arguments
CalculateDynamicStopLoss ==
    /\ ~callRet.called
    /\ callArgs.fn = "calculate_dynamic_stop_loss"
    /\ callRet' = [called |-> TRUE] @@
                  calculate_dynamic_stop_loss(callArgs.df, callArgs.position_type)
    /\ UNCHANGED <<selVars, parVars, scoreVars, riskVars, levelVars, callArgs, configVars>>

NextStopLoss == CalculateDynamicStopLoss

SpecStopLoss == InitStopLoss /\ [][NextStopLoss]_vars

\* ====================================================== trading signals
\* position.py: generate_trading_signals and its six detectors.  A price
\* series is described by what its last day shows: the cross of the 5-day
\* over the 20-day average, the cross of the MACD over its signal line, the
\* RSI zone, the volume against its average, the Bollinger band touched and
\* the trend strength (in hundredths).

\* The detectors read the columns through the names CLOSE_COL and
\* VOLUME_COL, which position.py neither imports nor defines: evaluating
\* one raises NameError, and the detector's handler returns its default.
ReadsColumn(name) == ResolvesInPosition(name)

\* calculate_ma_signal(df, 5, 20): (bullish, bearish) as one of "bullish",
\* "bearish", "none"
calculate_ma_signal(df) ==
    IF df.rows < 20 THEN "none"
    ELSE IF ~ReadsColumn("CLOSE_COL") THEN "none"
    ELSE df.ma_cross

\* calculate_macd_signal(df): slow period 26, signal period 9
calculate_macd_signal(df) ==
    IF df.rows < 26 + 9 THEN "none"
    ELSE IF ~ReadsColumn("CLOSE_COL") THEN "none"
    ELSE df.macd_cross

\* calculate_rsi_signal(df): period 14
calculate_rsi_signal(df) ==
    IF df.rows < 14 + 1 THEN "neutral"
    ELSE IF ~ReadsColumn("CLOSE_COL") THEN "neutral"
    ELSE df.rsi_zone

\* calculate_volume_signal(df): period 20
calculate_volume_signal(df) ==
    IF df.rows < 20 THEN "neutral"
    ELSE IF ~ReadsColumn("VOLUME_COL") THEN "neutral"
    ELSE df.volume_against_average

\* calculate_bollinger_bands_signal(df): period 20
calculate_bollinger_bands_signal(df) ==
    IF df.rows < 20 THEN "middle_band"
    ELSE IF ~ReadsColumn("CLOSE_COL") THEN "middle_band"
    ELSE df.band

\* calculate_trend_strength(df): period 30, in hundredths
calculate_trend_strength(df) ==
    IF df.rows < 30 THEN 50
    ELSE IF ~ReadsColumn("CLOSE_COL") THEN 50
    ELSE Min2(Max2(df.trend, 0), 100)

\* the points of the six signals for a buy
BuyPoints(ma, macd, rsi, volume, bb, trend) ==
    (IF ma = "bullish" THEN 2 ELSE 0) + (IF macd = "bullish" THEN 2 ELSE 0)
    + (IF rsi = "oversold" THEN 1 ELSE 0) + (IF volume = "bullish" THEN 1 ELSE 0)
    + (IF bb = "lower_band" THEN 1 ELSE 0) + (IF trend > 70 THEN 1 ELSE 0)

\* ... and for a sell
SellPoints(ma, macd, rsi, volume, bb, trend) ==
    (IF ma = "bearish" THEN 2 ELSE 0) + (IF macd = "bearish" THEN 2 ELSE 0)
    + (IF rsi = "overbought" THEN 1 ELSE 0) + (IF volume = "bearish" THEN 1 ELSE 0)
    + (IF bb = "upper_band" THEN 1 ELSE 0) + (IF trend < 30 THEN 1 ELSE 0)

\* generate_trading_signals: the lookup of the bucket's parameters raises
\* for a name without parameters, and the handler returns no signal
generate_trading_signals(df, position_type) ==
    LET ma == calculate_ma_signal(df)
        macd == calculate_macd_signal(df)
        rsi_signal == calculate_rsi_signal(df)
        volume_signal == calculate_volume_signal(df)
        bb_signal == calculate_bollinger_bands_signal(df)
        trend_strength == calculate_trend_strength(df)
        buy_strength == BuyPoints(ma, macd, rsi_signal, volume_signal, bb_signal,
                                  trend_strength)
        sell_strength == SellPoints(ma, macd, rsi_signal, volume_signal, bb_signal,
                                    trend_strength)
        confirm_threshold ==
            IF StrategyParameters[position_type].confirm_days > 1 THEN 4 ELSE 3
    IN  IF ~HasParameters(position_type)
            THEN [signal_type |-> "none", signal_strength |-> 0]
        ELSE IF buy_strength >= confirm_threshold
            THEN [signal_type |-> "buy", signal_strength |-> buy_strength]
        ELSE IF sell_strength >= confirm_threshold
            THEN [signal_type |-> "sell", signal_strength |-> sell_strength]
        ELSE [signal_type |-> "none", signal_strength |-> 0]

\* ------------------------------------------------ claims on the signals

\* the buy strength of a series: 2 points for each of the two crosses its
\* last day shows, 1 point for each of the other four signals
BuyStrengthOf(df) ==
    BuyPoints(IF df.rows >= 20 THEN df.ma_cross ELSE "none",
              IF df.rows >= 35 THEN df.macd_cross ELSE "none",
              IF df.rows >= 15 THEN df.rsi_zone ELSE "neutral",
              IF df.rows >= 20 THEN df.volume_against_average ELSE "neutral",
              IF df.rows >= 20 THEN df.band ELSE "middle_band",
              IF df.rows >= 30 THEN Min2(Max2(df.trend, 0), 100) ELSE 50)

ConfirmThreshold(position_type) ==
    IF StrategyParameters[position_type].confirm_days <= 1 THEN 3 ELSE 4

\* C13: the signal is "buy" with signal_strength = buy_strength whenever the
\* buy strength reaches the confirmation threshold of the bucket (3 for
\* confirm_days <= 1, 4 otherwise), an MA and a MACD bullish cross adding 2
\* points each; so when both cross bullish on the same day the signal is
\* "buy" with strength >= 4.
C13_ConfirmedBuySignal ==
    (callRet.called /\ callArgs.fn = "generate_trading_signals"
        /\ HasParameters(callArgs.position_type)) =>
        /\ BuyStrengthOf(callArgs.df) >= ConfirmThreshold(callArgs.position_type)
            => /\ callRet.signal_type = "buy"
               /\ callRet.signal_strength = BuyStrengthOf(callArgs.df)
        /\ (callArgs.df.rows >= 35 /\ callArgs.df.ma_cross = "bullish"
                /\ callArgs.df.macd_cross = "bullish")
            => /\ callRet.signal_type = "buy"
               /\ callRet.signal_strength >= 4

\* no call returns a signal
SignalIsAlwaysNone ==
    (callRet.called /\ callArgs.fn = "generate_trading_signals") =>
        /\ callRet.signal_type = "none"
        /\ callRet.signal_strength = 0

\* the price series handed to the signals
SignalFrames ==
    {[rows |-> rows, ma_cross |-> ma, macd_cross |-> macd, rsi_zone |-> rsi,
      volume_against_average |-> vol, band |-> bb, trend |-> trend] :
        rows \in {14, 20, 30, 35},
        ma \in {"bullish", "bearish", "none"},
        macd \in {"bullish", "bearish", "none"},
        rsi \in {"oversold", "overbought", "neutral"},
        vol \in {"bullish", "bearish", "neutral"},
        bb \in {"lower_band", "upper_band", "middle_band"},
        trend \in {20, 50, 80}}

InitSignals ==
    /\ IdleSelect
    /\ IdleParity
    /\ IdleScore
    /\ IdleRisk
    /\ IdleLevel
    /\ IdleConfig
    /\ \E df \in SignalFrames, position_type \in BucketNames :
            callArgs = [fn |-> "generate_trading_signals", df |-> df,
                        position_type |-> position_type]
    /\ callRet = NoCall

\* one call of generate_trading_signals on the drawn arguments
GenerateTradingSignals ==
    /\ ~callRet.called
    /\ callArgs.fn = "generate_trading_signals"
    /\ callRet' = [called |-> TRUE] @@
                  generate_trading_signals(callArgs.df, callArgs.position_type)
    /\ UNCHANGED <<selVars, parVars, scoreVars, riskVars, levelVars, callArgs, configVars>>

NextSignals == GenerateTradingSignals

SpecSignals == InitSignals /\ [][NextSignals]_vars

\* ===================================================== market regime
\* date_utils.py: determine_market_condition.  The function takes no
\* argument: it draws 30 daily increments from a normal distribution
\* (np.random.normal, unseeded), accumulates them into a price series that
\* starts near 1, and classifies that series.

\* the days of the simulated series
SeriesDays == 30

\* the price levels of the simulated series, in tenths
PriceLevels == {9, 10, 11}

\* Config.MARKET_CONDITION_THRESHOLDS, in hundredths; the volatility
\* threshold in tenths
MARKET_CONDITION_THRESHOLDS ==
    [bull_short_trend |-> 5, bull_mid_trend |-> 3, bull_momentum |-> 5,
     bear_short_trend |-> -5, bear_mid_trend |-> -3, bear_momentum |-> -5,
     sideways_volatility |-> 2, sideways_trend |-> 3]

\* a draw of np.random.normal(0.001, 0.02, 30).cumsum() + 1: the series
\* stays at one level over days 1..10, 11..25, 26..29 and on day 30, and
\* moves by at most one level between them
SimulatedPrices ==
    {[i \in 1..SeriesDays |->
        IF i <= 10 THEN a ELSE IF i <= 25 THEN b ELSE IF i <= 29 THEN c ELSE d] :
        <<a, b, c, d>> \in
            {q \in PriceLevels \X PriceLevels \X PriceLevels \X PriceLevels :
                /\ q[2] - q[1] \in -1..1
                /\ q[3] - q[2] \in -1..1
                /\ q[4] - q[3] \in -1..1}}

\* the sum of prices[from..to]
RECURSIVE PriceSum(_, _, _)
PriceSum(prices, from, to) ==
    IF from > to THEN 0 ELSE prices[from] + PriceSum(prices, from + 1, to)

\* (current_price - ma) / ma for the moving average of the last `window`
\* days, as a ratio num / den with den > 0
TrendAgainstAverage(prices, window) ==
    LET total == PriceSum(prices, SeriesDays - window + 1, SeriesDays)
    IN  [num |-> window * prices[SeriesDays] - total, den |-> total]

\* momentum = prices[-1] / prices[0] - 1
Momentum(prices) == [num |-> prices[SeriesDays] - prices[1], den |-> prices[1]]

\* ratio > hundredths / 100
RatioAbove(ratio, hundredths) == 100 * ratio.num > hundredths * ratio.den

\* ratio < hundredths / 100
RatioBelow(ratio, hundredths) == 100 * ratio.num < hundredths * ratio.den

\* a common denominator of the daily returns: 9 * 10 * 11
ReturnDenominator == 990

\* the daily return of day i (pct_change) over ReturnDenominator
DailyReturn(prices, i) ==
    ((prices[i] - prices[i - 1]) * ReturnDenominator) \div prices[i - 1]

RECURSIVE ReturnSum(_, _)
ReturnSum(prices, i) ==
    IF i < 2 THEN 0 ELSE DailyReturn(prices, i) + ReturnSum(prices, i - 1)

RECURSIVE ReturnSquareSum(_, _)
ReturnSquareSum(prices, i) ==
    IF i < 2 THEN 0
    ELSE DailyReturn(prices, i) * DailyReturn(prices, i)
            + ReturnSquareSum(prices, i - 1)

\* pct_change().std() * sqrt(252) > tenths / 10: with n = 29 returns r and
\* the sample variance (n * sum r^2 - (sum r)^2) / (n * (n - 1)), the
\* comparison is 252 * variance > tenths^2 / 100
VolatilityAbove(prices, tenths) ==
    LET n == SeriesDays - 1
        spread == n * ReturnSquareSum(prices, SeriesDays)
                    - ReturnSum(prices, SeriesDays) * ReturnSum(prices, SeriesDays)
    IN  900 * spread > n * ReturnDenominator * ReturnDenominator * tenths * tenths

\* a slip: the fallback taken without the sideways test
determine_market_condition_no_sideways(prices) ==
    LET thresholds == MARKET_CONDITION_THRESHOLDS
        short_trend == TrendAgainstAverage(prices, 5)
        mid_trend == TrendAgainstAverage(prices, 20)
        momentum == Momentum(prices)
    IN  IF /\ RatioAbove(short_trend, thresholds.bull_short_trend)
           /\ RatioAbove(mid_trend, thresholds.bull_mid_trend)
           /\ RatioAbove(momentum, thresholds.bull_momentum)
            THEN "bull"
        ELSE IF /\ RatioBelow(short_trend, thresholds.bear_short_trend)
                /\ RatioBelow(mid_trend, thresholds.bear_mid_trend)
                /\ RatioBelow(momentum, thresholds.bear_momentum)
            THEN "bear"
        ELSE IF mid_trend.num > 0 THEN "bull" ELSE "bear"

\* determine_market_condition on the drawn series.  No operation on the
\* drawn series raises, so the handler's "sideways" is never returned by it.
determine_market_condition(prices) ==
    LET thresholds == MARKET_CONDITION_THRESHOLDS
        short_trend == TrendAgainstAverage(prices, 5)
        mid_trend == TrendAgainstAverage(prices, 20)
        momentum == Momentum(prices)
    IN  IF /\ RatioAbove(short_trend, thresholds.bull_short_trend)
           /\ RatioAbove(mid_trend, thresholds.bull_mid_trend)
           /\ RatioAbove(momentum, thresholds.bull_momentum)
            THEN "bull"
        ELSE IF /\ RatioBelow(short_trend, thresholds.bear_short_trend)
                /\ RatioBelow(mid_trend, thresholds.bear_mid_trend)
                /\ RatioBelow(momentum, thresholds.bear_momentum)
            THEN "bear"
        ELSE IF /\ VolatilityAbove(prices, thresholds.sideways_volatility)
                /\ RatioBelow(short_trend, thresholds.sideways_trend)
                /\ RatioAbove(short_trend, -thresholds.sideways_trend)
            THEN "sideways"
        ELSE IF mid_trend.num > 0 THEN "bull" ELSE "bear"

\* ------------------------------------------------ claims on the regime

\* the invocations made so far
Invocations ==
    IF callRet.called /\ callArgs.fn = "determine_market_condition"
        THEN callRet.invocations ELSE <<>>

IsBull(prices) ==
    /\ RatioAbove(TrendAgainstAverage(prices, 5), 5)
    /\ RatioAbove(TrendAgainstAverage(prices, 20), 3)
    /\ RatioAbove(Momentum(prices), 5)

IsBear(prices) ==
    /\ RatioBelow(TrendAgainstAverage(prices, 5), -5)
    /\ RatioBelow(TrendAgainstAverage(prices, 20), -3)
    /\ RatioBelow(Momentum(prices), -5)

IsSideways(prices) ==
    /\ VolatilityAbove(prices, 2)
    /\ RatioBelow(TrendAgainstAverage(prices, 5), 3)
    /\ RatioAbove(TrendAgainstAverage(prices, 5), -3)

\* C14: the rules are evaluated in the order bull, bear, sideways, fallback
\* and the first match wins: bull iff short trend, mid trend and momentum all
\* exceed the bull thresholds; else bear iff all three are below the bear
\* thresholds; else sideways iff volatility > sideways_volatility and
\* |short trend| < sideways_trend; else bull if mid trend > 0 and bear
\* otherwise; the result is always one of the three regimes.
C14_RegimeRuleOrder ==
    \A k \in 1..Len(Invocations) :
        LET prices == Invocations[k].prices
            regime == Invocations[k].market_condition
        IN  /\ regime \in Regimes
            /\ regime = "bull" <=>
                \/ IsBull(prices)
                \/ /\ ~IsBear(prices)
                   /\ ~IsSideways(prices)
                   /\ TrendAgainstAverage(prices, 20).num > 0
            /\ regime = "sideways" <=>
                ~IsBull(prices) /\ ~IsBear(prices) /\ IsSideways(prices)
            /\ regime = "bear" <=>
                \/ ~IsBull(prices) /\ IsBear(prices)
                \/ /\ ~IsBull(prices)
                   /\ ~IsBear(prices)
                   /\ ~IsSideways(prices)
                   /\ TrendAgainstAverage(prices, 20).num <= 0

\* a series that no bull or bear rule matches is classified sideways
C14_Witness ==
    \E k \in 1..Len(Invocations) :
        /\ IsSideways(Invocations[k].prices)
        /\ Invocations[k].prices[1] # Invocations[k].prices[SeriesDays]
        /\ Invocations[k].market_condition = "sideways"

\* C15: two invocations of determine_market_condition on identical input
\* data return the same regime, so two scoring passes on identical data use
\* the same weights.
C15_RegimeDeterministic ==
    \A j, k \in 1..Len(Invocations) :
        /\ Invocations[j].market_condition = Invocations[k].market_condition
        /\ Invocations[j].score_weights = Invocations[k].score_weights

\* the regime follows from the drawn series alone
RegimeFollowsFromDraw ==
    \A j, k \in 1..Len(Invocations) :
        Invocations[j].prices = Invocations[k].prices =>
            Invocations[j].market_condition = Invocations[k].market_condition

InitRegime ==
    /\ IdleSelect
    /\ IdleParity
    /\ IdleScore
    /\ IdleRisk
    /\ IdleLevel
    /\ IdleConfig
    /\ callArgs = [fn |-> "determine_market_condition"]
    /\ callRet = NoCall

\* get_top_rated_etfs, first lines: one invocation of
\* determine_market_condition, which draws its series, and the weights of the
\* regime it returns; a second pass on the same data follows the first
DetermineMarketCondition ==
    /\ callArgs.fn = "determine_market_condition"
    /\ Len(Invocations) < 2
    /\ \E prices \in SimulatedPrices :
        LET market_condition == determine_market_condition(prices)
        IN  callRet' = [called |-> TRUE,
                        invocations |-> Append(Invocations,
                            [prices |-> prices,
                             market_condition |-> market_condition,
                             score_weights |->
                                adjust_score_weights(BASE_SCORE_WEIGHTS,
                                                     market_condition)])]
    /\ UNCHANGED <<selVars, parVars, scoreVars, riskVars, levelVars, callArgs, configVars>>

NextRegime == DetermineMarketCondition

SpecRegime == InitRegime /\ [][NextRegime]_vars

\* ============================================ dynamic selection thresholds
\* etf_list.py: get_dynamic_selection_thresholds, and the configuration
\* tables under the regime adjustments.

\* the calls made in one run of the adjustments
MaxCalls == 3

\* value * tenths / 10
ScaleByTenths(value, tenths) == (value * tenths) \div 10

\* the fixed liquidity floor of the bear regime: 3000.0
LiquidityFloor == 3000

\* a slip: the base-tier thresholds returned without the regime scaling
get_dynamic_selection_thresholds_unscaled(layers, market_condition) ==
    [base_params |-> layers.base, ETF_SELECTION_LAYERS |-> layers]

\* a slip: the base tier adjusted in place, without the copy
get_dynamic_selection_thresholds_in_place(layers, market_condition) ==
    LET base_params ==
            IF market_condition = "bull"
                THEN [layers.base EXCEPT
                        !.min_fund_size = ScaleByTenths(@, 12),
                        !.min_avg_volume = ScaleByTenths(@, 12)]
            ELSE IF market_condition = "bear"
                THEN [layers.base EXCEPT
                        !.min_fund_size = ScaleByTenths(@, 8),
                        !.min_avg_volume =
                            Max2(ScaleByTenths(@, 8), LiquidityFloor)]
            ELSE layers.base
    IN  [base_params |-> base_params,
         ETF_SELECTION_LAYERS |-> [layers EXCEPT !.base = base_params]]

\* get_dynamic_selection_thresholds: the adjustments are made on a copy of
\* the base tier; the result is the copy, next to the table as the call
\* leaves it
get_dynamic_selection_thresholds(layers, market_condition) ==
    LET copy == layers.base
        base_params ==
            IF market_condition = "bull"
                THEN [copy EXCEPT
                        !.min_fund_size = ScaleByTenths(@, 12),
                        !.min_avg_volume = ScaleByTenths(@, 12)]
            ELSE IF market_condition = "bear"
                THEN [copy EXCEPT
                        !.min_fund_size = ScaleByTenths(@, 8),
                        !.min_avg_volume =
                            Max2(ScaleByTenths(@, 8), LiquidityFloor)]
            ELSE copy
    IN  [base_params |-> base_params, ETF_SELECTION_LAYERS |-> layers]

\* ---------------------------------------------- claims on the thresholds

\* the calls made so far, each with its regime and its result
CallLog ==
    IF callRet.called /\ callArgs.fn = "regime_adjustments"
        THEN callRet.log ELSE <<>>

ThresholdCalls ==
    {k \in 1..Len(CallLog) : CallLog[k].fn = "get_dynamic_selection_thresholds"}

\* C16: the result is the base tier with min_fund_size and min_avg_volume
\* multiplied by 1.2 in a bull regime, by 0.8 in a bear regime with
\* min_avg_volume then raised to at least the liquidity floor, and unchanged
\* in a sideways regime; min_avg_volume is at least the floor in every regime.
C16_DynamicThresholds ==
    \A k \in ThresholdCalls :
        LET base == CallLog[k].base
            result == CallLog[k].result
            regime == CallLog[k].market_condition
        IN  /\ regime = "bull" =>
                /\ 10 * result.min_fund_size = 12 * base.min_fund_size
                /\ 10 * result.min_avg_volume = 12 * base.min_avg_volume
            /\ regime = "bear" =>
                /\ 10 * result.min_fund_size = 8 * base.min_fund_size
                /\ \/ /\ 10 * result.min_avg_volume = 8 * base.min_avg_volume
                      /\ result.min_avg_volume >= LiquidityFloor
                   \/ /\ 8 * base.min_avg_volume < 10 * LiquidityFloor
                      /\ result.min_avg_volume = LiquidityFloor
            /\ regime = "sideways" => result = base
            /\ result.min_avg_volume >= LiquidityFloor
            /\ result.min_listing_days = base.min_listing_days
            /\ result.max_tracking_error = base.max_tracking_error

\* thresholds have been returned for a bull and for a bear regime
C16_Witness ==
    /\ \E k \in ThresholdCalls :
            /\ CallLog[k].market_condition = "bull"
            /\ CallLog[k].result.min_avg_volume = 6000
    /\ \E k \in ThresholdCalls :
            /\ CallLog[k].market_condition = "bear"
            /\ CallLog[k].result.min_avg_volume = 4000

\* C17: after any sequence of adjust_score_weights and
\* get_dynamic_selection_thresholds calls the base score weights, the
\* selection layers and the strategy parameters equal their initial values,
\* and a later call with the same regime returns what the first returned.
C17_ConfigurationStatic ==
    /\ BASE_SCORE_WEIGHTS = BaseScoreWeights
    /\ ETF_SELECTION_LAYERS = EtfSelectionLayers
    /\ STRATEGY_PARAMETERS = StrategyParameters
    /\ \A j, k \in 1..Len(CallLog) :
            (/\ CallLog[j].fn = CallLog[k].fn
             /\ CallLog[j].market_condition = CallLog[k].market_condition)
                => CallLog[j].result = CallLog[k].result

\* the same adjusting regime has been passed to both functions twice over
C17_Witness ==
    /\ Len(CallLog) = MaxCalls
    /\ \E j, k \in ThresholdCalls :
            j < k /\ CallLog[j].market_condition = "bear"
                  /\ CallLog[k].market_condition = "bear"
    /\ \E k \in 1..Len(CallLog) : CallLog[k].fn = "adjust_score_weights"

InitAdjustments ==
    /\ IdleSelect
    /\ IdleParity
    /\ IdleScore
    /\ IdleRisk
    /\ IdleLevel
    /\ IdleConfig
    /\ callArgs = [fn |-> "regime_adjustments"]
    /\ callRet = NoCall

\* one call of get_dynamic_selection_thresholds
GetDynamicSelectionThresholds ==
    /\ callArgs.fn = "regime_adjustments"
    /\ Len(CallLog) < MaxCalls
    /\ \E market_condition \in Regimes :
        LET r == get_dynamic_selection_thresholds(ETF_SELECTION_LAYERS,
                                                  market_condition)
        IN  /\ callRet' = [called |-> TRUE,
                           log |-> Append(CallLog,
                                [fn |-> "get_dynamic_selection_thresholds",
                                 market_condition |-> market_condition,
                                 base |-> ETF_SELECTION_LAYERS.base,
                                 result |-> r.base_params])]
            /\ ETF_SELECTION_LAYERS' = r.ETF_SELECTION_LAYERS
    /\ UNCHANGED <<selVars, parVars, scoreVars, riskVars, levelVars, callArgs,
                   STRATEGY_PARAMETERS>>

\* one call of adjust_score_weights, which works on a copy of the base
\* weights
AdjustScoreWeightsOnCopy ==
    /\ callArgs.fn = "regime_adjustments"
    /\ Len(CallLog) < MaxCalls
    /\ \E market_condition \in Regimes :
        callRet' = [called |-> TRUE,
                    log |-> Append(CallLog,
                        [fn |-> "adjust_score_weights",
                         market_condition |-> market_condition,
                         base |-> BASE_SCORE_WEIGHTS,
                         result |-> adjust_score_weights(BASE_SCORE_WEIGHTS,
                                                         market_condition)])]
    /\ UNCHANGED <<selVars, parVars, scoreVars, riskVars, levelVars, callArgs,
                   configVars>>

NextAdjustments ==
    \/ GetDynamicSelectionThresholds
    \/ AdjustScoreWeightsOnCopy

SpecAdjustments == InitAdjustments /\ [][NextAdjustments]_vars

\* ================================================= scoring the same data
\* etf_scoring.py: what calculate_etf_score does to the frame its caller
\* passes.  The frame is sorted into a new frame only when it has a date
\* column; the four scores on the last 30 days work on df.tail(30), a new
\* frame; calculate_tracking_score gets the frame itself.

\* calculate_tracking_score: the column "tracking_error" it assigns into
\* the frame it is given, when the frame has no "跟踪误差" column and has
\* the index close and the close
TrackingScoreAssigns(df) ==
    IF ~df.tracking_error.has /\ df.index_close.has /\ df.has_close
        THEN {"tracking_error"} ELSE {}

\* the columns calculate_etf_score adds to the frame of its caller
ColumnsAddedToCallerFrame(df) ==
    IF df.has_date THEN {}
    ELSE IF df.rows < MinObservations THEN {}
    ELSE TrackingScoreAssigns(df)

\* the scores returned so far for the frame
ScoresOfFrame ==
    IF callRet.called /\ callArgs.fn = "calculate_etf_score"
        THEN callRet.scores ELSE <<>>

\* the columns added so far to the frame
AddedColumns ==
    IF callRet.called /\ callArgs.fn = "calculate_etf_score"
        THEN callRet.added_columns ELSE {}

\* C18: scoring the same instrument twice on identical, unchanged price data
\* with the same weights yields identical composite scores, and the caller's
\* price series has the same columns and values after the call as before it.
C18_ScoringLeavesInputUnchanged ==
    /\ \A j, k \in 1..Len(ScoresOfFrame) : ScoresOfFrame[j] = ScoresOfFrame[k]
    /\ AddedColumns = {}

\* the second score of a frame equals the first
SecondScoreEqualsFirst ==
    \A j, k \in 1..Len(ScoresOfFrame) : ScoresOfFrame[j] = ScoresOfFrame[k]

\* the frames scored twice: those of the tracking score, with and without a
\* date column
RescoredFrames ==
    {[df EXCEPT !.has_date = d] :
        df \in UNION {TrackingFrames(n) : n \in RowCounts}, d \in BOOLEAN}

InitRescore ==
    /\ IdleSelect
    /\ IdleParity
    /\ IdleScore
    /\ IdleRisk
    /\ IdleLevel
    /\ IdleConfig
    /\ \E df \in RescoredFrames, etf_size \in FundSizes :
            callArgs = [fn |-> "calculate_etf_score", df |-> df,
                        etf_size |-> etf_size]
    /\ callRet = NoCall

\* one call of calculate_etf_score on the frame of the caller; the second
\* call gets the same frame object, with the columns the first call added
\* (none of them is a column the scores read)
CalculateEtfScoreOnFrame ==
    /\ callArgs.fn = "calculate_etf_score"
    /\ Len(ScoresOfFrame) < 2
    /\ callRet' =
        [called |-> TRUE,
         scores |-> Append(ScoresOfFrame,
                        calculate_etf_score(callArgs.etf_size, callArgs.df,
                                            score_weights,
                                            BASE_SCORE_WEIGHTS).score),
         added_columns |->
            AddedColumns \cup ColumnsAddedToCallerFrame(callArgs.df)]
    /\ UNCHANGED <<selVars, parVars, scoreVars, riskVars, levelVars, callArgs,
                   configVars>>

NextRescore == CalculateEtfScoreOnFrame

SpecRescore == InitRescore /\ [][NextRescore]_vars

\* ===================================================== the scoring pass
\* etf_scoring.py: the loop of get_top_rated_etfs over the codes of the
\* metadata, the ranking and the cut.

\* the instruments of the universe
MaxUniverse == 3

\* min_score, the default of get_top_rated_etfs
MinScore == 60

\* Config.SCORE_TOP_PERCENT
SCORE_TOP_PERCENT == 20

\* the least number of instruments the top-percent cut keeps
MinTopCount == 10

\* what the pass meets at one instrument: no daily data (the loader returns
\* an empty frame, also when reading the file fails); a failure inside
\* calculate_etf_score, whose handler returns 0.0; a failure in the rest of
\* the loop body (a size or an amount that does not compare); or a score,
\* with the outcome of the size and volume filter
Instruments ==
    {[outcome |-> "no_data", score |-> 0, passes_filter |-> FALSE],
     [outcome |-> "scoring_fails", score |-> 0, passes_filter |-> FALSE],
     [outcome |-> "row_fails", score |-> 90, passes_filter |-> FALSE]}
    \cup {[outcome |-> "scored", score |-> sc, passes_filter |-> f] :
            sc \in {50, 70, 90}, f \in BOOLEAN}

\* the values of top_n: 0 for None
TopNs == {0, 1, 2}

\* a slip: the handler leaves the loop
AfterLoopHandlerBreaks(position, universe) == Len(universe) + 1

\* where the loop goes on after the handler of the loop body: `continue`
AfterLoopHandler(position, universe) == position + 1

\* whether the loop body reaches calculate_etf_score for the instrument
IsScored(etf) == etf.outcome # "no_data"

\* whether the loop body raises at the instrument
BodyRaises(etf) == etf.outcome = "row_fails"

\* whether the loop body appends the instrument to score_list
IsListed(etf) ==
    /\ etf.outcome = "scored"
    /\ etf.score >= MinScore
    /\ etf.passes_filter

\* score_df.head(top_n) if top_n is given and positive, else
\* score_df.head(top_count)
HeadCount(top_n, total_etfs) ==
    IF top_n > 0 THEN top_n
    ELSE Max2(MinTopCount, (total_etfs * SCORE_TOP_PERCENT) \div 100)

\* the orders sort_values("score", ascending=False) can give score_list:
\* the sort is not stable, equal scores come in any order
RankedOrders(score_list, universe) ==
    {order \in [1..Len(score_list) -> Range(score_list)] :
        /\ \A i, j \in 1..Len(score_list) : i # j => order[i] # order[j]
        /\ \A i \in 1..Len(score_list) - 1 :
                universe[order[i]].score >= universe[order[i + 1]].score}

\* ---------------------------------------------------- claims on the pass

PassReturned == callRet.called /\ callArgs.fn = "get_top_rated_etfs"

\* the instruments of the universe that do not fail and pass the filters
PassingInstruments ==
    {i \in 1..Len(callArgs.universe) : IsListed(callArgs.universe[i])}

InitPass ==
    /\ IdleSelect
    /\ IdleParity
    /\ IdleScore
    /\ IdleRisk
    /\ IdleLevel
    /\ IdleConfig
    /\ \E n \in 1..MaxUniverse, top_n \in TopNs :
        \E universe \in [1..n -> Instruments] :
            callArgs = [fn |-> "get_top_rated_etfs", universe |-> universe,
                        top_n |-> top_n]
    /\ callRet = [called |-> FALSE, position |-> 1, scored |-> <<>>,
                  score_list |-> <<>>]

\* one turn of the loop over all_codes
ScoreNextInstrument ==
    /\ callArgs.fn = "get_top_rated_etfs"
    /\ ~callRet.called
    /\ callRet.position <= Len(callArgs.universe)
    /\ LET i == callRet.position
           etf == callArgs.universe[i]
       IN  callRet' =
            [callRet EXCEPT
                !.position =
                    IF BodyRaises(etf)
                        THEN AfterLoopHandler(i, callArgs.universe)
                    ELSE i + 1,
                !.scored = IF IsScored(etf) THEN Append(@, i) ELSE @,
                !.score_list = IF IsListed(etf) THEN Append(@, i) ELSE @]
    /\ UNCHANGED <<selVars, parVars, scoreVars, riskVars, levelVars, callArgs,
                   configVars>>

\* after the loop: an empty frame if nothing is listed, else the ranking and
\* its head
ReturnRanking ==
    /\ callArgs.fn = "get_top_rated_etfs"
    /\ ~callRet.called
    /\ callRet.position > Len(callArgs.universe)
    /\ \E order \in RankedOrders(callRet.score_list, callArgs.universe) :
        callRet' =
            [called |-> TRUE, scored |-> callRet.scored,
             result |-> SubSeq(order, 1,
                            Min2(Len(order),
                                 HeadCount(callArgs.top_n, Len(order))))]
    /\ UNCHANGED <<selVars, parVars, scoreVars, riskVars, levelVars, callArgs,
                   configVars>>

NextPass ==
    \/ ScoreNextInstrument
    \/ ReturnRanking

SpecPass == InitPass /\ [][NextPass]_vars

\* ============================================ parameters of the buckets
\* position.py: the loop of calculate_position_strategy over the buckets and
\* the parameter lookups it reaches.

\* the rows of a ranking get_top_rated_etfs returns
MaxTopEtfs == 2

\* Config.STRATEGY_PARAMETERS.get(position_type,
\* Config.STRATEGY_PARAMETERS["稳健仓"]): the parameters get_top_rated_etfs
\* and the selection filter by
ParametersOrStable(table, position_type) ==
    IF position_type \in DOMAIN table THEN table[position_type]
    ELSE table.stable

\* Config.STRATEGY_PARAMETERS[position_type] in generate_position_suggestion,
\* reached with a ranking of two or more rows; a KeyError goes to the handler
\* of the function, which returns an error text as the suggestion
SuggestionLookup(table, position_type, top_etfs_rows) ==
    IF top_etfs_rows < 2 THEN "not_reached"
    ELSE IF position_type \in DOMAIN table THEN "found"
    ELSE "KeyError"

\* ------------------------------------------------ claims on the buckets

\* the buckets the pass has evaluated so far
Evaluated ==
    IF callArgs.fn = "calculate_position_strategy" THEN callRet.evaluated
    ELSE <<>>

\* C20: each bucket name that the strategy pass processes or initialises a
\* holding row for (stable, aggressive, arbitrage, growth, sector) resolves
\* to a parameter set of its own in the strategy parameters, so no step of
\* the pass fails on, or substitutes another bucket's values for, a
\* parameter lookup.
C20_EveryBucketHasParameters ==
    callArgs.fn = "calculate_position_strategy" =>
        /\ callRet.called =>
                \A position_type \in BucketNames :
                    position_type \in DOMAIN STRATEGY_PARAMETERS
        /\ \A k \in 1..Len(Evaluated) :
                /\ Evaluated[k].position_type \in DOMAIN STRATEGY_PARAMETERS
                /\ Evaluated[k].lookup # "KeyError"
                /\ Evaluated[k].selection_parameters
                        = STRATEGY_PARAMETERS[Evaluated[k].position_type]

\* the buckets with an entry in the table get their own parameters
KeyedBucketsGetOwnParameters ==
    \A k \in 1..Len(Evaluated) :
        HasParameters(Evaluated[k].position_type) =>
            /\ Evaluated[k].lookup # "KeyError"
            /\ Evaluated[k].selection_parameters
                    = StrategyParameters[Evaluated[k].position_type]

InitStrategy ==
    /\ IdleSelect
    /\ IdleParity
    /\ IdleScore
    /\ IdleRisk
    /\ IdleLevel
    /\ IdleConfig
    /\ \E top_etfs_rows \in [1..Len(PassBuckets) -> 0..MaxTopEtfs] :
            callArgs = [fn |-> "calculate_position_strategy",
                        top_etfs_rows |-> top_etfs_rows]
    /\ callRet = [called |-> FALSE, evaluated |-> <<>>]

\* one turn of the loop over the buckets: get_top_rated_etfs for the bucket,
\* then generate_position_suggestion on its ranking
EvaluateBucket ==
    /\ callArgs.fn = "calculate_position_strategy"
    /\ ~callRet.called
    /\ Len(callRet.evaluated) < Len(PassBuckets)
    /\ LET k == Len(callRet.evaluated) + 1
           position_type == PassBuckets[k]
       IN  callRet' =
            [callRet EXCEPT !.evaluated = Append(@,
                [position_type |-> position_type,
                 selection_parameters |->
                    ParametersOrStable(STRATEGY_PARAMETERS, position_type),
                 lookup |-> SuggestionLookup(STRATEGY_PARAMETERS, position_type,
                                             callArgs.top_etfs_rows[k])])]
    /\ UNCHANGED <<selVars, parVars, scoreVars, riskVars, levelVars, callArgs,
                   configVars>>

\* after the loop the pass returns its messages
ReturnMessages ==
    /\ callArgs.fn = "calculate_position_strategy"
    /\ ~callRet.called
    /\ Len(callRet.evaluated) = Len(PassBuckets)
    /\ callRet' = [callRet EXCEPT !.called = TRUE]
    /\ UNCHANGED <<selVars, parVars, scoreVars, riskVars, levelVars, callArgs,
                   configVars>>

NextStrategy ==
    \/ EvaluateBucket
    \/ ReturnMessages

SpecStrategy == InitStrategy /\ [][NextStrategy]_vars

\* ================================================ position suggestions
\* position.py: generate_position_suggestion and get_optimal_portfolio.
\* A ranking is a sequence of rows [etf_code, score] in falling score; the
\* holdings of a bucket are the codes of its row, each with what its daily
\* data show: "no_data" (no file), "below_stop" (the last close is below the
\* cost by the stop-loss ratio or more) or "above_stop".

\* the codes of the model
PortfolioCodes == {1, 2, 3}

\* calculate_correlation_matrix: 1 on the diagonal, base_corr = 0.5
\* elsewhere, in tenths
calculate_correlation_matrix(etfs) ==
    LET etf_codes == {etfs[i].etf_code : i \in 1..Len(etfs)}
    IN  [index |-> etf_codes,
         table |-> [pair \in etf_codes \X etf_codes |->
                        IF pair[1] = pair[2] THEN 10 ELSE 5]]

\* get_optimal_portfolio: the rows select_low_correlation_etfs takes from
\* the ranking under the parameters of the bucket, those of "稳健仓" for a
\* bucket without parameters
get_optimal_portfolio(position_type, top_etfs) ==
    IF top_etfs = <<>> THEN <<>>
    ELSE LET params == ParametersOrStable(StrategyParameters, position_type)
         IN  select_low_correlation_etfs(top_etfs,
                                         calculate_correlation_matrix(top_etfs),
                                         params.max_holdings,
                                         params.min_correlation)

\* get_etf_score: the score of the code in the ranking of
\* get_top_rated_etfs(top_n=100), 60 for a code that is not in it
get_etf_score(etf_code, ranking) ==
    IF \E i \in 1..Len(ranking) : ranking[i].etf_code = etf_code
        THEN ranking[CHOOSE i \in 1..Len(ranking) :
                        ranking[i].etf_code = etf_code].score
    ELSE 60

\* the elements of a sequence that are in a set, in the order of the sequence
RECURSIVE Filter(_, _)
Filter(seq, keep) ==
    IF seq = <<>> THEN <<>>
    ELSE IF Head(seq) \in keep THEN <<Head(seq)>> \o Filter(Tail(seq), keep)
    ELSE Filter(Tail(seq), keep)

\* one trade action for each code of a sequence
ActionsFor(codes, operation) ==
    [i \in 1..Len(codes) |-> [operation |-> operation, etf_code |-> codes[i]]]

\* list.sort(key=score), a stable sort: the codes by rising score, equal
\* scores in the order they had
RECURSIVE SortByScore(_, _)
SortByScore(codes, ranking) ==
    IF codes = <<>> THEN <<>>
    ELSE LET least == CHOOSE i \in 1..Len(codes) :
                        /\ \A j \in 1..Len(codes) :
                                get_etf_score(codes[i], ranking)
                                    <= get_etf_score(codes[j], ranking)
                        /\ \A j \in 1..(i - 1) :
                                get_etf_score(codes[j], ranking)
                                    > get_etf_score(codes[i], ranking)
         IN  <<codes[least]>>
                \o SortByScore(SubSeq(codes, 1, least - 1)
                                \o SubSeq(codes, least + 1, Len(codes)), ranking)

\* load_etf_daily_data(code).iloc[-1]["收盘"] raises for a code without data
PriceLookupRaises(codes, holdings) ==
    \E i \in 1..Len(codes) :
        codes[i] \in DOMAIN holdings /\ holdings[codes[i]] = "no_data"

\* what the function returns from its handler
SuggestionError == [suggestion |-> {"error"}, trade_actions |-> <<>>]

\* generate_position_suggestion.  current_etfs are the held codes in the
\* order of the row, holdings their data, target_position_size a fraction in
\* ten-thousandths.  The result is the kinds of the suggestion lines and the
\* trade actions in their order.
generate_position_suggestion(position_type, top_etfs, current_etfs, holdings, target_position_size, ranking) ==
    LET optimal_portfolio == get_optimal_portfolio(position_type, top_etfs)
        optimal_codes == [i \in 1..Len(optimal_portfolio) |->
                            optimal_portfolio[i].etf_code]
        current_codes == Range(current_etfs)
        need_switch ==
            /\ current_etfs # <<>>
            /\ \/ ~(current_codes \subseteq Range(optimal_codes))
               \/ \E i \in 1..Len(current_etfs) :
                    get_etf_score(current_etfs[i], ranking) < 60
        new_etfs == Filter(optimal_codes, Range(optimal_codes) \ current_codes)
        old_etfs == Filter(current_etfs, current_codes \ Range(optimal_codes))
        switches == need_switch /\ old_etfs # <<>> /\ new_etfs # <<>>
        adds_new == need_switch /\ old_etfs = <<>> /\ new_etfs # <<>>
        switch_actions ==
            IF switches
                THEN ActionsFor(old_etfs, "sell") \o ActionsFor(optimal_codes, "buy")
            ELSE IF adds_new THEN ActionsFor(new_etfs, "buy")
            ELSE <<>>
        stopped == Filter(current_etfs,
                          {c \in current_codes : holdings[c] = "below_stop"})
        current_position_size == Len(current_etfs)
        target_size == Len(optimal_portfolio)
        resizes == current_position_size # target_size
        position_change == target_position_size - 10000 * current_position_size
        adds == resizes /\ position_change > 0
        reduces == resizes /\ position_change <= 0
        added == SubSeq(new_etfs, 1,
                        Min2(Len(new_etfs),
                             (position_change * target_size) \div 10000))
        etfs_to_sell == SortByScore(current_etfs, ranking)
        reduced == SubSeq(etfs_to_sell, 1,
                          Min2(Len(etfs_to_sell),
                               ((0 - position_change) * current_position_size)
                                    \div 10000))
        lines == (IF switches THEN {"switch"} ELSE {})
                    \cup (IF adds_new THEN {"new_holding"} ELSE {})
                    \cup (IF stopped # <<>> THEN {"stop_loss"} ELSE {})
                    \cup (IF adds /\ new_etfs # <<>> THEN {"add"} ELSE {})
                    \cup (IF reduces THEN {"reduce"} ELSE {})
    IN  IF Len(top_etfs) < 2
            THEN [suggestion |-> {"not_enough_data"}, trade_actions |-> <<>>]
        ELSE IF ~HasParameters(position_type) THEN SuggestionError
        ELSE IF switches /\ PriceLookupRaises(old_etfs, holdings)
            THEN SuggestionError
        ELSE IF reduces /\ PriceLookupRaises(reduced, holdings)
            THEN SuggestionError
        ELSE [suggestion |-> IF lines = {} THEN {"no_action"} ELSE lines,
              trade_actions |->
                switch_actions \o ActionsFor(stopped, "stop_loss_sell")
                    \o (IF adds THEN ActionsFor(added, "add") ELSE <<>>)
                    \o (IF reduces THEN ActionsFor(reduced, "reduce") ELSE <<>>)]

\* ------------------------------------------- claims on the suggestions

SuggestionReturned ==
    callRet.called /\ callArgs.fn = "generate_position_suggestion"

ActionsOf(operations) ==
    {i \in 1..Len(callRet.trade_actions) :
        callRet.trade_actions[i].operation \in operations}

\* C29: in the trade actions of one bucket in one pass a buy action is never
\* recorded for a code the bucket already holds, and no code receives more
\* than one full-exit action (sell or stop-loss sell).
C29_NoBuyOfHeldNoDoubleExit ==
    SuggestionReturned =>
        /\ \A i \in ActionsOf({"buy"}) :
                callRet.trade_actions[i].etf_code
                    \notin Range(callArgs.current_etfs)
        /\ \A i, j \in ActionsOf({"sell", "stop_loss_sell"}) :
                i # j => callRet.trade_actions[i].etf_code
                            # callRet.trade_actions[j].etf_code

\* C30: reducing (a reduce action or the reduce line) is proposed only when
\* the bucket holds more instruments than the target portfolio contains,
\* adding only when it holds fewer, and neither when the counts are equal.
C30_ResizeFollowsCounts ==
    SuggestionReturned =>
        LET held == Len(callArgs.current_etfs)
            target == Len(get_optimal_portfolio(callArgs.position_type,
                                                callArgs.top_etfs))
            reducing == \/ "reduce" \in callRet.suggestion
                        \/ ActionsOf({"reduce"}) # {}
            adding == \/ "add" \in callRet.suggestion
                      \/ ActionsOf({"add"}) # {}
        IN  /\ reducing => held > target
            /\ adding => held < target
            /\ held = target => ~reducing /\ ~adding

\* with nothing held only adding is proposed, and nothing with equal counts
EmptyBucketOnlyAdds ==
    SuggestionReturned =>
        /\ callArgs.current_etfs = <<>> => "reduce" \notin callRet.suggestion
        /\ Len(callArgs.current_etfs)
                = Len(get_optimal_portfolio(callArgs.position_type,
                                            callArgs.top_etfs))
            => /\ "reduce" \notin callRet.suggestion
               /\ "add" \notin callRet.suggestion

\* the rankings of get_top_rated_etfs: distinct codes in falling score
Rankings ==
    UNION {{[i \in 1..n |-> [etf_code |-> code[i], score |-> 90 - 5 * i]] :
                code \in {c \in [1..n -> PortfolioCodes] :
                            \A i, j \in 1..n : i # j => c[i] # c[j]}} :
            n \in 0..Min2(MaxTopEtfs, Cardinality(PortfolioCodes))}

\* the held codes of a set, in rising order
RECURSIVE CodesInOrder(_)
CodesInOrder(codes) ==
    IF codes = {} THEN <<>>
    ELSE LET least == CHOOSE c \in codes : \A d \in codes : c <= d
         IN  <<least>> \o CodesInOrder(codes \ {least})

InitSuggestion ==
    /\ IdleSelect
    /\ IdleParity
    /\ IdleScore
    /\ IdleRisk
    /\ IdleLevel
    /\ IdleConfig
    /\ \E position_type \in BucketNames, top_etfs \in Rankings,
          held \in SUBSET PortfolioCodes,
          risk_level \in RiskLevels, market_condition \in Regimes :
        \E holdings \in [held -> {"no_data", "below_stop", "above_stop"}] :
            \* a ranked code has daily data
            /\ \A i \in 1..Len(top_etfs) :
                    top_etfs[i].etf_code \in held
                        => holdings[top_etfs[i].etf_code] # "no_data"
            /\ callArgs = [fn |-> "generate_position_suggestion",
                        position_type |-> position_type,
                        top_etfs |-> top_etfs,
                        current_etfs |-> CodesInOrder(held),
                        holdings |-> holdings,
                        risk_level |-> risk_level,
                        market_condition |-> market_condition]
    /\ callRet = NoCall

\* one call of generate_position_suggestion; the volatility of the risk
\* snapshot is 0.10
GeneratePositionSuggestion ==
    /\ callArgs.fn = "generate_position_suggestion"
    /\ ~callRet.called
    /\ callRet' = [called |-> TRUE] @@
        generate_position_suggestion(
            callArgs.position_type, callArgs.top_etfs, callArgs.current_etfs,
            callArgs.holdings,
            adjust_position_size(callArgs.risk_level, callArgs.market_condition, 10),
            callArgs.top_etfs)
    /\ UNCHANGED <<selVars, parVars, scoreVars, riskVars, levelVars, callArgs,
                   configVars>>

NextSuggestion == GeneratePositionSuggestion

SpecSuggestion == InitSuggestion /\ [][NextSuggestion]_vars

\* ====================================================== trend strength
\* position.py: calculate_trend_strength(df, period = 30) on the closing
\* prices themselves.  The result is in hundredths, rounded down.

\* the default of the parameter period
TrendPeriod == 30

\* an absolute value
AbsInt(x) == IF x < 0 THEN 0 - x ELSE x

\* df[CLOSE_COL].diff().abs().sum(): the absolute daily changes of the
\* whole frame
RECURSIVE AbsDiffSum(_)
AbsDiffSum(prices) ==
    IF Len(prices) < 2 THEN 0
    ELSE AbsInt(prices[2] - prices[1]) + AbsDiffSum(Tail(prices))

\* the ratio of the body of the function, once the closing column is read
TrendRatio(prices) ==
    LET start_price == prices[Len(prices) - TrendPeriod + 1]
        end_price == prices[Len(prices)]
        total_change == end_price - start_price
        absolute_volatility == AbsDiffSum(prices)
        trend_strength ==
            IF absolute_volatility # 0
            THEN (100 * AbsInt(total_change)) \div absolute_volatility
            ELSE 0
    IN  Min2(Max2(trend_strength, 0), 100)

\* calculate_trend_strength on a series of closing prices: the name
\* CLOSE_COL does not resolve, so the handler's 0.5 is returned
calculate_trend_strength_of_prices(prices) ==
    IF Len(prices) < TrendPeriod THEN 50
    ELSE IF ~ReadsColumn("CLOSE_COL") THEN 50
    ELSE TrendRatio(prices)

\* the trailing window of a series
TrailingWindow(prices) ==
    SubSeq(prices, Len(prices) - TrendPeriod + 1, Len(prices))

\* the directional-efficiency ratio of a window, in hundredths rounded down
EfficiencyRatio(window) ==
    LET net == AbsInt(window[Len(window)] - window[1])
        path == AbsDiffSum(window)
    IN  IF path = 0 THEN 0 ELSE (100 * net) \div path

\* C25: for a series of at least 30 observations calculate_trend_strength
\* returns the absolute net change over the trailing 30 observations
\* divided by the sum of the absolute daily changes of that window (0 when
\* the sum is 0), a value in [0,1] that the older observations do not
\* influence.
C25_TrendStrengthIsEfficiencyRatio ==
    (callRet.called /\ callArgs.fn = "calculate_trend_strength"
        /\ Len(callArgs.prices) >= TrendPeriod)
        => /\ callRet.trend_strength
                = EfficiencyRatio(TrailingWindow(callArgs.prices))
           /\ callRet.trend_strength \in 0..100

\* what the function does return: the default for every series
TrendStrengthIsDefault ==
    (callRet.called /\ callArgs.fn = "calculate_trend_strength")
        => callRet.trend_strength = 50

\* the most observations older than the window
MaxOlder == 2

\* closing prices in hundredths: a line of the given slope with a zigzag of
\* the given amplitude, after some older observations
TrendSeries ==
    {[i \in 1..(older + n) |->
            IF i <= older THEN 1000 + 50 * i
            ELSE 1000 + slope * (i - older) + amplitude * ((i - older) % 2)] :
        older \in 0..MaxOlder, n \in {TrendPeriod - 1, TrendPeriod},
        slope \in -2..2, amplitude \in 0..3}

InitTrend ==
    /\ IdleSelect
    /\ IdleParity
    /\ IdleScore
    /\ IdleRisk
    /\ IdleLevel
    /\ IdleConfig
    /\ \E prices \in TrendSeries :
            callArgs = [fn |-> "calculate_trend_strength", prices |-> prices]
    /\ callRet = NoCall

\* one call of calculate_trend_strength on the drawn series
CalculateTrendStrength ==
    /\ callArgs.fn = "calculate_trend_strength"
    /\ ~callRet.called
    /\ callRet' = [called |-> TRUE,
                   trend_strength |->
                        calculate_trend_strength_of_prices(callArgs.prices)]
    /\ UNCHANGED <<selVars, parVars, scoreVars, riskVars, levelVars, callArgs,
                   configVars>>

NextTrend == CalculateTrendStrength

SpecTrend == InitTrend /\ [][NextTrend]_vars

\* ==================================================== message delivery
\* wechat_push.py: send_wechat_message and _send_message_to_wechat.  A
\* message is cut into chunks by _check_message_length; every chunk is
\* posted to the webhook, and the answer of the webhook to one post is one
\* of Responses.

\* the retries of one chunk
MAX_RETRIES == 3

\* the most chunks of one message
MaxChunks == 2

\* the answers to one requests.post: status 200 with errcode 0, with
\* errcode 429, with errcode 40037, with another errcode, another status,
\* and a raised RequestException
Responses ==
    {"ok", "rate_limited", "invalid_webhook", "api_error", "http_error",
     "request_exception"}

\* _send_message_to_wechat: True for errcode 0 only; every other answer,
\* the invalid webhook among them, gives the same False
send_message_to_wechat(response) == response = "ok"

\* the loop of send_wechat_message has posted the chunk `chunk` with the
\* answer `response` as its attempt number retry_count
AfterAttempt(state, response) ==
    LET sent == send_message_to_wechat(response)
        logged == Append(state.attempts,
                         [chunk |-> state.chunk, response |-> response])
    IN  IF sent
            \* success = True; break
            THEN [state EXCEPT !.attempts = logged, !.chunk = @ + 1,
                               !.retry_count = 0]
        ELSE IF state.retry_count < MAX_RETRIES - 1
            \* time.sleep(_RETRY_DELAYS[retry_count]) and the next attempt
            THEN [state EXCEPT !.attempts = logged, !.retry_count = @ + 1]
        \* the attempts are used up: all_sent = False, next chunk
        ELSE [state EXCEPT !.attempts = logged, !.chunk = @ + 1,
                           !.retry_count = 0, !.all_sent = FALSE]

\* the attempts made for one chunk, as indices of the log
AttemptsOf(chunk) ==
    {k \in 1..Len(callRet.attempts) : callRet.attempts[k].chunk = chunk}

SendInProgress == callArgs.fn = "send_wechat_message"

\* C28: send_wechat_message makes at most 3 attempts per chunk, none for a
\* chunk after one of its attempts succeeded, none at all after the webhook
\* was reported invalid (errcode 40037), and returns True exactly when
\* every chunk had a successful attempt.
C28_BoundedDelivery ==
    SendInProgress =>
        /\ \A chunk \in 1..callArgs.chunks :
                Cardinality(AttemptsOf(chunk)) <= MAX_RETRIES
        /\ \A k \in 1..Len(callRet.attempts) :
                callRet.attempts[k].response = "ok" =>
                    \A later \in (k + 1)..Len(callRet.attempts) :
                        callRet.attempts[later].chunk # callRet.attempts[k].chunk
        /\ \A k \in 1..Len(callRet.attempts) :
                callRet.attempts[k].response = "invalid_webhook" =>
                    k = Len(callRet.attempts)
        /\ callRet.called =>
                (callRet.result <=>
                    /\ callArgs.webhook
                    /\ \A chunk \in 1..callArgs.chunks :
                        \E k \in AttemptsOf(chunk) :
                            callRet.attempts[k].response = "ok")

\* what holds of the loop: the bound, the stop at success, the result
AttemptsBoundedResultFaithful ==
    SendInProgress =>
        /\ \A chunk \in 1..callArgs.chunks :
                Cardinality(AttemptsOf(chunk)) <= MAX_RETRIES
        /\ \A k \in 1..Len(callRet.attempts) :
                callRet.attempts[k].response = "ok" =>
                    \A later \in (k + 1)..Len(callRet.attempts) :
                        callRet.attempts[later].chunk # callRet.attempts[k].chunk
        /\ callRet.called =>
                (callRet.result <=>
                    /\ callArgs.webhook
                    /\ \A chunk \in 1..callArgs.chunks :
                        \E k \in AttemptsOf(chunk) :
                            callRet.attempts[k].response = "ok")

InitSend ==
    /\ IdleSelect
    /\ IdleParity
    /\ IdleScore
    /\ IdleRisk
    /\ IdleLevel
    /\ IdleConfig
    /\ \E chunks \in 1..MaxChunks, webhook \in BOOLEAN :
            callArgs = [fn |-> "send_wechat_message", chunks |-> chunks,
                        webhook |-> webhook]
    /\ callRet = [called |-> FALSE, chunks |-> callArgs.chunks, chunk |-> 1,
                  retry_count |-> 0, attempts |-> <<>>, all_sent |-> TRUE,
                  result |-> FALSE]

\* `if not webhook: return False`
ReturnWebhookMissing ==
    /\ SendInProgress
    /\ ~callRet.called
    /\ ~callArgs.webhook
    /\ callRet' = [callRet EXCEPT !.called = TRUE, !.result = FALSE]
    /\ UNCHANGED <<selVars, parVars, scoreVars, riskVars, levelVars, callArgs,
                   configVars>>

\* one turn of the retry loop: one post and the bookkeeping after it
AttemptDelivery ==
    /\ SendInProgress
    /\ ~callRet.called
    /\ callArgs.webhook
    /\ callRet.chunk <= callArgs.chunks
    /\ \E response \in Responses :
            callRet' = AfterAttempt(callRet, response)
    /\ UNCHANGED <<selVars, parVars, scoreVars, riskVars, levelVars, callArgs,
                   configVars>>

\* `return all_sent` after the last chunk
ReturnAllSent ==
    /\ SendInProgress
    /\ ~callRet.called
    /\ callArgs.webhook
    /\ callRet.chunk > callArgs.chunks
    /\ callRet' = [callRet EXCEPT !.called = TRUE, !.result = callRet.all_sent]
    /\ UNCHANGED <<selVars, parVars, scoreVars, riskVars, levelVars, callArgs,
                   configVars>>

NextSend == ReturnWebhookMissing \/ AttemptDelivery \/ ReturnAllSent

SpecSend == InitSend /\ [][NextSend]_vars

\* ======================================================= strategy pass
\* position.py: calculate_position_strategy with the three files it works
\* on: the position record (POSITION_RECORD_PATH), the trade log
\* (TRADE_RECORD_PATH) and the risk log.  The position record is a file the
\* pass reads; no function of the program writes it.

\* the most passes of one behaviour
MaxPasses == 2

\* the rows of the default record, in the order of the list
RecordBuckets == <<"stable", "aggressive", "arbitrage", "growth", "sector">>

\* init_position_record: the rows of the file when it exists and can be
\* read, the five default rows (not written to the file) when it does not
\* exist, and a frame without rows when reading it raises
init_position_record(position_file) ==
    IF ~position_file.exists
        THEN [b \in Range(RecordBuckets) |-> {}]
    ELSE IF ~position_file.readable THEN [b \in {} |-> {}]
    ELSE position_file.rows

\* the holdings the next pass reads for a bucket
PersistedHoldings(position_file, position_type) ==
    LET current_positions == init_position_record(position_file)
    IN  IF position_type \in DOMAIN current_positions
            THEN current_positions[position_type]
        ELSE {}

\* the frame of current positions as monitor_portfolio_risk reads it
PositionsFrame(current_positions) ==
    LET present == Filter(RecordBuckets, DOMAIN current_positions)
    IN  [has_etf_code |-> TRUE,
         rows |-> [k \in 1..Len(present) |->
                        CodesInOrder(current_positions[present[k]])]]

\* the actions generate_position_suggestion returns for a bucket, as the
\* records of the trade log ("持仓类型", "操作", "ETF代码")
TradeRecordsOf(position_type, trade_actions) ==
    [i \in 1..Len(trade_actions) |->
        [position_type |-> position_type,
         operation |-> trade_actions[i].operation,
         etf_code |-> trade_actions[i].etf_code]]

\* the holdings of a bucket with the price state of each held code
HeldAt(held, prices) == [c \in held |-> prices[c]]

\* the loop over the buckets of the pass: `.iloc[0]` on the rows of a
\* bucket the record does not have raises IndexError, which ends the loop
RECURSIVE BucketLoop(_, _, _, _, _, _)
BucketLoop(k, current_positions, top_etfs, prices, target_position_size, trade_actions) ==
    IF k > Len(PassBuckets) THEN [raised |-> FALSE, trade_actions |-> trade_actions]
    ELSE IF PassBuckets[k] \notin DOMAIN current_positions
        THEN [raised |-> TRUE, trade_actions |-> trade_actions]
    ELSE BucketLoop(k + 1, current_positions, top_etfs, prices,
                    target_position_size,
                    trade_actions \o TradeRecordsOf(PassBuckets[k],
                        generate_position_suggestion(
                            PassBuckets[k], top_etfs,
                            CodesInOrder(current_positions[PassBuckets[k]]),
                            HeldAt(current_positions[PassBuckets[k]], prices),
                            target_position_size, top_etfs).trade_actions))

\* generate_detailed_messages: five messages; the message of the growth
\* bucket reads Config.STRATEGY_PARAMETERS["成长仓"], and the handler
\* turns the KeyError into one failure text
generate_detailed_messages(risk_level) ==
    IF ~risk_level.has_metrics THEN <<"message_generation_failed">>
    ELSE IF \E k \in 1..Len(PassBuckets) : ~HasParameters(PassBuckets[k])
        THEN <<"message_generation_failed">>
    ELSE <<"stable", "aggressive", "growth", "sector", "risk_summary">>

\* record_trade_actions: read the log, append, write
record_trade_actions(trade_records, trade_actions) ==
    trade_records \o trade_actions

\* save_risk_monitor_record: the record is built from the eight fields of
\* the snapshot; a snapshot without the metrics raises KeyError, which the
\* handler logs, and nothing is appended
save_risk_monitor_record(risk_records, risk_level) ==
    IF ~risk_level.has_metrics THEN risk_records
    ELSE Append(risk_records,
                [metrics |-> risk_level.metrics,
                 overall_risk_level |-> risk_level.overall_risk_level,
                 risk_alert |-> risk_level.risk_alert])

\* the end of calculate_position_strategy: the outer handler when the loop
\* raised, else the messages, the trade log and the risk log
PassOutcome(store, risk_level, loop) ==
    IF loop.raised
        THEN [store EXCEPT !.passes = @ + 1, !.failed = TRUE,
                           !.messages = <<"strategy_calculation_failed">>,
                           !.pass_actions = <<>>]
    ELSE [store EXCEPT
            !.passes = @ + 1, !.failed = FALSE,
            !.messages = generate_detailed_messages(risk_level),
            !.pass_actions = loop.trade_actions,
            !.trade_records =
                IF loop.trade_actions # <<>>
                    THEN record_trade_actions(@, loop.trade_actions)
                ELSE @,
            !.risk_records = save_risk_monitor_record(@, risk_level)]

\* the pass once the risk snapshot is known: the loop over the buckets
\* with the position size of the snapshot's level (volatility 0.10)
PassAtRisk(store, current_positions, risk_level, top_etfs, prices, market_condition) ==
    PassOutcome(store, risk_level,
        BucketLoop(1, current_positions, top_etfs, prices,
                   adjust_position_size(risk_level.overall_risk_level,
                                        market_condition, 10),
                   <<>>))

\* the pass once the position record is read: monitor_portfolio_risk on it
PassOnRecord(store, current_positions, top_etfs, prices, market_condition) ==
    PassAtRisk(store, current_positions,
        monitor_portfolio_risk(
            PositionsFrame(current_positions),
            [c \in PortfolioCodes |-> NeutralFrame(MinObservations)]),
        top_etfs, prices, market_condition)

\* calculate_position_strategy on the files `store`, with the ranking, the
\* prices and the regime of the day
calculate_position_strategy(store, top_etfs, prices, market_condition) ==
    PassOnRecord(store, init_position_record(store.position_file),
                 top_etfs, prices, market_condition)

StrategyPassDone ==
    callArgs.fn = "calculate_position_strategy" /\ callRet.passes >= 1

\* the last action of the pass for a code of a bucket
LastActionOn(position_type, etf_code) ==
    LET on == {i \in 1..Len(callRet.pass_actions) :
                /\ callRet.pass_actions[i].position_type = position_type
                /\ callRet.pass_actions[i].etf_code = etf_code}
    IN  IF on = {} THEN "none"
        ELSE callRet.pass_actions[CHOOSE i \in on : \A j \in on : j <= i].operation

\* C21: when calculate_position_strategy completes, the persisted holdings
\* of each bucket reflect the actions the pass recorded for that bucket: a
\* code whose last action is a buy is held, a code whose last action is a
\* sell or a stop-loss sell is not, and that is what the next pass reads.
C21_HoldingsPersisted ==
    StrategyPassDone =>
        \A k \in 1..Len(PassBuckets), etf_code \in PortfolioCodes :
            LET operation == LastActionOn(PassBuckets[k], etf_code)
                held == PersistedHoldings(callRet.position_file, PassBuckets[k])
            IN  /\ operation = "buy" => etf_code \in held
                /\ operation \in {"sell", "stop_loss_sell"}
                        => etf_code \notin held

\* the position record is the one the first pass found
PositionFileNeverWritten ==
    callArgs.fn = "calculate_position_strategy"
        => callRet.position_file = callArgs.position_file

\* C23: every strategy pass appends exactly one risk snapshot with all
\* eight fields (six metrics, level, alert) to the risk log, whatever the
\* outcome of the pass.
C23_OneRiskSnapshotPerPass ==
    callArgs.fn = "calculate_position_strategy" =>
        /\ Len(callRet.risk_records) = callRet.passes
        /\ \A i \in 1..Len(callRet.risk_records) :
                Len(callRet.risk_records[i].metrics) = 6

\* a pass that leaves the bucket loop normally appends one snapshot
CompletedPassAppendsSnapshot ==
    callArgs.fn = "calculate_position_strategy" =>
        /\ Len(callRet.risk_records) <= callRet.passes
        /\ (callRet.passes >= 1 /\ ~callRet.failed)
            => Len(callRet.risk_records) >= 1

\* the position records found at the first pass: no file, a file that
\* cannot be parsed, a file with the five rows, a file with the rows of
\* the two buckets named in the docstring of init_position_record
PositionFiles ==
    {[exists |-> FALSE, readable |-> FALSE, rows |-> [b \in {} |-> {}]],
     [exists |-> TRUE, readable |-> FALSE, rows |-> [b \in {} |-> {}]]}
    \cup {[exists |-> TRUE, readable |-> TRUE,
           rows |-> [b \in Range(RecordBuckets) |->
                        IF b = "stable" THEN stable
                        ELSE IF b = "aggressive" THEN aggressive ELSE {}]] :
            stable \in SUBSET PortfolioCodes, aggressive \in {{}, {3}}}
    \cup {[exists |-> TRUE, readable |-> TRUE,
           rows |-> [b \in {"stable", "aggressive"} |->
                        IF b = "stable" THEN {1} ELSE {}]]}

InitStore ==
    /\ IdleSelect
    /\ IdleParity
    /\ IdleScore
    /\ IdleRisk
    /\ IdleLevel
    /\ IdleConfig
    /\ \E position_file \in PositionFiles :
            callArgs = [fn |-> "calculate_position_strategy",
                        position_file |-> position_file]
    /\ callRet = [called |-> FALSE, position_file |-> callArgs.position_file,
                  trade_records |-> <<>>, risk_records |-> <<>>,
                  passes |-> 0, failed |-> FALSE, messages |-> <<>>,
                  pass_actions |-> <<>>]

\* one pass of calculate_position_strategy
CalculatePositionStrategy ==
    /\ callArgs.fn = "calculate_position_strategy"
    /\ callRet.passes < MaxPasses
    /\ \E top_etfs \in Rankings, market_condition \in Regimes,
          prices \in [PortfolioCodes -> {"below_stop", "above_stop"}] :
            callRet' = [calculate_position_strategy(
                            callRet, top_etfs, prices, market_condition)
                        EXCEPT !.called = TRUE]
    /\ UNCHANGED <<selVars, parVars, scoreVars, riskVars, levelVars, callArgs,
                   configVars>>

NextStore == CalculatePositionStrategy

SpecStore == InitStore /\ [][NextStore]_vars

\* ====================================================== scoring history
\* file_utils.py: save_etf_score_history, called by every scoring pass of
\* get_top_rated_etfs that scored an instrument; position.py: get_etf_score
\* runs such a pass for every lookup.

\* the most scoring passes of one behaviour, and the most calendar days
MaxScoringPasses == 3

MaxDays == 2

\* save_etf_score_history: read the log, append one record per row of
\* score_df under the current date, write the log
save_etf_score_history(history_df, current_date, score_df) ==
    history_df \o [i \in 1..Len(score_df) |->
                        [date |-> current_date,
                         etf_code |-> score_df[i].etf_code,
                         score |-> score_df[i].score]]

\* the end of get_top_rated_etfs: no history is saved when no instrument
\* was scored
HistoryAfterPass(history_df, current_date, score_df) ==
    IF score_df = <<>> THEN history_df
    ELSE save_etf_score_history(history_df, current_date, score_df)

HistoryInUse == callArgs.fn = "save_etf_score_history"

\* C22: after any sequence of scoring passes, those of get_etf_score
\* included, the scoring history holds at most one record per date and
\* code, and no record appended earlier has been changed or removed.
C22_OneRecordPerDateAndCode ==
    HistoryInUse =>
        /\ \A i, j \in 1..Len(callRet.history) :
                (/\ callRet.history[i].date = callRet.history[j].date
                 /\ callRet.history[i].etf_code = callRet.history[j].etf_code)
                    => i = j
        /\ Len(callRet.previous) <= Len(callRet.history)
        /\ SubSeq(callRet.history, 1, Len(callRet.previous)) = callRet.previous

\* the history only grows at its end
HistoryOnlyAppended ==
    HistoryInUse =>
        /\ Len(callRet.previous) <= Len(callRet.history)
        /\ SubSeq(callRet.history, 1, Len(callRet.previous)) = callRet.previous

InitHistory ==
    /\ IdleSelect
    /\ IdleParity
    /\ IdleScore
    /\ IdleRisk
    /\ IdleLevel
    /\ IdleConfig
    /\ callArgs = [fn |-> "save_etf_score_history"]
    /\ callRet = [called |-> FALSE, history |-> <<>>, previous |-> <<>>,
                  current_date |-> 1, passes |-> 0, score |-> 0]

\* one scoring pass: get_top_rated_etfs with the scores of the moment
GetTopRatedEtfs ==
    /\ HistoryInUse
    /\ callRet.passes < MaxScoringPasses
    /\ \E score_df \in Rankings :
            callRet' = [callRet EXCEPT
                !.called = TRUE, !.passes = @ + 1,
                !.previous = callRet.history,
                !.history = HistoryAfterPass(@, callRet.current_date, score_df)]
    /\ UNCHANGED <<selVars, parVars, scoreVars, riskVars, levelVars, callArgs,
                   configVars>>

\* get_etf_score(etf_code) of a held code: get_top_rated_etfs(top_n=100)
\* and the lookup of the code in its result
GetEtfScore ==
    /\ HistoryInUse
    /\ callRet.passes < MaxScoringPasses
    /\ \E score_df \in Rankings, etf_code \in PortfolioCodes :
            callRet' = [callRet EXCEPT
                !.called = TRUE, !.passes = @ + 1,
                !.previous = callRet.history,
                !.history = HistoryAfterPass(@, callRet.current_date, score_df),
                !.score = get_etf_score(etf_code, score_df)]
    /\ UNCHANGED <<selVars, parVars, scoreVars, riskVars, levelVars, callArgs,
                   configVars>>

\* midnight in Beijing
NextDay ==
    /\ HistoryInUse
    /\ callRet.current_date < MaxDays
    /\ callRet' = [callRet EXCEPT !.current_date = @ + 1]
    /\ UNCHANGED <<selVars, parVars, scoreVars, riskVars, levelVars, callArgs,
                   configVars>>

NextHistory == GetTopRatedEtfs \/ GetEtfScore \/ NextDay

SpecHistory == InitHistory /\ [][NextHistory]_vars

\* ================================================== position task runs
\* main.py: handle_calculate_position, should_execute_calculate_position,
\* check_flag and set_flag; wechat_push.py: send_multiple_messages.  Each
\* run of the task is a process of its own (a workflow run); the runs share
\* the flag files, the position record and the trade log.

\* the most runs of the task in one behaviour
MaxRuns == 2

Runs == 1..MaxRuns

\* the steps of a run at which it is between the flag check and its end
PassSteps == {"compute", "write_trades", "send", "set_flag"}

\* should_execute_calculate_position, after `not is_manual_trigger()`: a
\* scheduled run is skipped when the flag file of the day exists
should_execute_calculate_position(flags, today) == today \notin flags

\* send_multiple_messages: False for no message, else every message is
\* sent and the result is True when every send_wechat_message was
send_multiple_messages(messages, delivered) ==
    /\ messages # <<>>
    /\ \A i \in 1..Len(messages) : delivered[i]

\* the part of calculate_position_strategy before record_trade_actions,
\* on the position record of the runs
PassOf(position_file, top_etfs, prices, market_condition) ==
    calculate_position_strategy(
        [called |-> FALSE, position_file |-> position_file,
         trade_records |-> <<>>, risk_records |-> <<>>, passes |-> 0,
         failed |-> FALSE, messages |-> <<>>, pass_actions |-> <<>>],
        top_etfs, prices, market_condition)

\* the strategy of a run was computed without error: neither the outer
\* handler of calculate_position_strategy nor the handler of
\* generate_detailed_messages was reached
ComputedWithoutError(run) ==
    /\ ~run.failed
    /\ run.messages # <<"message_generation_failed">>

TaskRuns == callArgs.fn = "handle_calculate_position"

\* the records of a run that wrote the trade log are in the log
RecordsKept(p) ==
    callRet.run[p].wrote =>
        \A i \in 1..Len(callRet.run[p].actions) :
            \E k \in 1..Len(callRet.trade_records) :
                callRet.trade_records[k] =
                    [by |-> p, action |-> callRet.run[p].actions[i]]

\* C24: for every interleaving of two runs of handle_calculate_position at
\* most one is between the flag check and the end of its pass, and no
\* record a pass appended to the trade log is lost through the other's
\* read-modify-write.
C24_AtMostOnePassAtATime ==
    TaskRuns =>
        /\ \A p, q \in Runs :
                (callRet.run[p].pc \in PassSteps /\ callRet.run[q].pc \in PassSteps)
                    => p = q
        /\ \A p \in Runs : RecordsKept(p)

\* a scheduled run that finds the flag of the day does not enter the pass
FlaggedDayIsSkipped ==
    TaskRuns =>
        \A p \in Runs :
            (~callRet.run[p].manual /\ callRet.run[p].found_flag) =>
                /\ callRet.run[p].pc = "done"
                /\ callRet.run[p].status = "skipped"
                /\ ~callRet.run[p].computed
                /\ callRet.run[p].sent_on = 0

\* the scheduled runs that delivered a strategy message on a day
DeliveredOn(day) ==
    {p \in Runs : /\ ~callRet.run[p].manual
                  /\ callRet.run[p].sent_on = day
                  /\ \E i \in 1..Len(callRet.run[p].messages) :
                        callRet.run[p].delivered[i]}

\* C26: under scheduled triggers at most one run per Beijing day delivers
\* strategy messages, and a scheduled run that finds the flag of the day
\* returns "skipped" without computing or sending.
C26_OnePushPerDay ==
    TaskRuns =>
        /\ \A day \in 1..MaxDays : Cardinality(DeliveredOn(day)) <= 1
        /\ \A p \in Runs :
            (~callRet.run[p].manual /\ callRet.run[p].found_flag) =>
                /\ callRet.run[p].status = "skipped"
                /\ ~callRet.run[p].computed
                /\ callRet.run[p].sent_on = 0

\* C27: the flag of the day is set only by a run whose strategy was
\* computed without error and whose messages were all delivered; a run
\* whose computation failed never sets it.
C27_FlagOnlyAfterGoodPass ==
    TaskRuns =>
        \A p \in Runs :
            callRet.run[p].flag_set =>
                /\ ComputedWithoutError(callRet.run[p])
                /\ send_multiple_messages(callRet.run[p].messages,
                                          callRet.run[p].delivered)

\* the flag is set only after every returned message was delivered
FlagOnlyAfterDelivery ==
    TaskRuns =>
        \A p \in Runs :
            callRet.run[p].flag_set =>
                send_multiple_messages(callRet.run[p].messages,
                                       callRet.run[p].delivered)

\* the rankings of the runs: the codes in rising order
TaskRankings ==
    {r \in Rankings : \A i \in 1..Len(r) : r[i].etf_code = i}

\* a run before its first step
FreshRun(manual) ==
    [pc |-> "start", manual |-> manual, found_flag |-> FALSE,
     computed |-> FALSE, failed |-> FALSE, messages |-> <<>>,
     actions |-> <<>>, observed |-> <<>>, wrote |-> FALSE,
     delivered |-> <<>>, sent_on |-> 0, flag_set |-> FALSE,
     status |-> "running"]

InitTask ==
    /\ IdleSelect
    /\ IdleParity
    /\ IdleScore
    /\ IdleRisk
    /\ IdleLevel
    /\ IdleConfig
    /\ \E position_file \in
            {f \in PositionFiles :
                \A b \in DOMAIN f.rows : f.rows[b] \subseteq {3}} :
            callArgs = [fn |-> "handle_calculate_position",
                        position_file |-> position_file]
    /\ \E manual \in [Runs -> BOOLEAN] :
            callRet = [called |-> FALSE, today |-> 1, flags |-> {},
                       trade_records |-> <<>>,
                       run |-> [p \in Runs |-> FreshRun(manual[p])]]

\* `if not is_manual_trigger() and not should_execute_calculate_position()`
CheckFlag(p) ==
    /\ TaskRuns
    /\ callRet.run[p].pc = "start"
    /\ LET skipped ==
            /\ ~callRet.run[p].manual
            /\ ~should_execute_calculate_position(callRet.flags, callRet.today)
       IN  callRet' = [callRet EXCEPT
                !.called = TRUE,
                !.run[p].found_flag = callRet.today \in callRet.flags,
                !.run[p].pc = IF skipped THEN "done" ELSE "compute",
                !.run[p].status = IF skipped THEN "skipped" ELSE @]
    /\ UNCHANGED <<selVars, parVars, scoreVars, riskVars, levelVars, callArgs,
                   configVars>>

\* calculate_position_strategy up to the read of the trade log in
\* record_trade_actions
ComputeStrategy(p) ==
    /\ TaskRuns
    /\ callRet.run[p].pc = "compute"
    /\ \E top_etfs \in TaskRankings, market_condition \in Regimes,
          price \in {"below_stop", "above_stop"} :
        LET pass == PassOf(callArgs.position_file, top_etfs,
                           [c \in PortfolioCodes |-> price], market_condition)
        IN  callRet' = [callRet EXCEPT
                !.run[p].computed = TRUE,
                !.run[p].failed = pass.failed,
                !.run[p].messages = pass.messages,
                !.run[p].actions = pass.pass_actions,
                !.run[p].observed = callRet.trade_records,
                !.run[p].pc = IF pass.pass_actions # <<>>
                                THEN "write_trades" ELSE "send"]
    /\ UNCHANGED <<selVars, parVars, scoreVars, riskVars, levelVars, callArgs,
                   configVars>>

\* trade_df.to_csv in record_trade_actions: what was read plus the actions
\* of the pass
WriteTradeRecords(p) ==
    /\ TaskRuns
    /\ callRet.run[p].pc = "write_trades"
    /\ callRet' = [callRet EXCEPT
            !.trade_records =
                callRet.run[p].observed
                    \o [i \in 1..Len(callRet.run[p].actions) |->
                            [by |-> p, action |-> callRet.run[p].actions[i]]],
            !.run[p].wrote = TRUE,
            !.run[p].pc = "send"]
    /\ UNCHANGED <<selVars, parVars, scoreVars, riskVars, levelVars, callArgs,
                   configVars>>

\* send_multiple_messages(messages, message_type="position") and the
\* branch on its result
SendMessages(p) ==
    /\ TaskRuns
    /\ callRet.run[p].pc = "send"
    /\ \E delivered \in [1..Len(callRet.run[p].messages) -> BOOLEAN] :
        LET send_success ==
                send_multiple_messages(callRet.run[p].messages, delivered)
        IN  callRet' = [callRet EXCEPT
                !.run[p].delivered = delivered,
                !.run[p].sent_on = callRet.today,
                !.run[p].pc = IF send_success THEN "set_flag" ELSE "done",
                !.run[p].status = IF send_success THEN @ ELSE "failed"]
    /\ UNCHANGED <<selVars, parVars, scoreVars, riskVars, levelVars, callArgs,
                   configVars>>

\* set_flag(Config.get_position_flag_file()): the file of the day of the
\* call is written, or the write raises and set_flag returns False, which
\* the caller does not read
SetFlag(p) ==
    /\ TaskRuns
    /\ callRet.run[p].pc = "set_flag"
    /\ \E written \in BOOLEAN :
        callRet' = [callRet EXCEPT
            !.flags = IF written THEN @ \cup {callRet.today} ELSE @,
            !.run[p].flag_set = written,
            !.run[p].pc = "done",
            !.run[p].status = "success"]
    /\ UNCHANGED <<selVars, parVars, scoreVars, riskVars, levelVars, callArgs,
                   configVars>>

\* midnight in Beijing
Midnight ==
    /\ TaskRuns
    /\ callRet.today < MaxDays
    /\ callRet' = [callRet EXCEPT !.today = @ + 1]
    /\ UNCHANGED <<selVars, parVars, scoreVars, riskVars, levelVars, callArgs,
                   configVars>>

NextTask ==
    \/ \E p \in Runs : CheckFlag(p)
    \/ \E p \in Runs : ComputeStrategy(p)
    \/ \E p \in Runs : WriteTradeRecords(p)
    \/ \E p \in Runs : SendMessages(p)
    \/ \E p \in Runs : SetFlag(p)
    \/ Midnight

SpecTask == InitTask /\ [][NextTask]_vars

====
